---- MODULE Spec2Model ----
(***************************************************************************)
(* Verification model of the capital-markets loaders backend:              *)
(*   - the recovery loader (BinanceAPILoad / YFinanceTickersLoad),         *)
(*   - the retry decorator retry_on_connection_error,                      *)
(*   - the connection factory MongoDBConnectionFactory.                    *)
(* Each subsystem has its own specification over the same variables.       *)
(***************************************************************************)
EXTENDS Bags, FiniteSets, Integers, Sequences, TLC

(***************************************************************************)
(* Bounds of the model.                                                    *)
(***************************************************************************)
\* calendar days are 0..MaxDay
MaxDay == 1
\* instants per calendar day (time of day is 0..TodPerDay-1)
TodPerDay == 2
\* rows in one extracted batch
MaxBatch == 2
\* load() calls in one behaviour
MaxLoads == 2
\* backup_day_data() calls in one behaviour
MaxBackups == 1
\* symbols processed by all load() calls of one behaviour
MaxItems == 3
\* store operations that fail in one behaviour
MaxFaults == 1
\* the attempt counts the retry wrapper is given are 1..MaxAttempts
MaxAttempts == 3
\* create_client calls in one behaviour
MaxCalls == 3
\* liveness probes that fail in one behaviour
MaxPingFails == 2
\* times the cached client's lifetime passes in one behaviour
MaxTicks == 2
MaxBackfillDay == 2
MinDateLen == 7
MaxDateLen == 8
MaxMacroDay == 2
MaxMacroValue == 2
MaxMacroRecords == 3
MaxPortfolioDay == 2
\* evaluations of the db or client property of one instance
MaxUses == 4
\* documents of one asset older than the cutoff
MaxOldDocs == 3

(***************************************************************************)
(* Time. A timestamp is an integer instant; its calendar date and time of  *)
(* day are what datetime.date() and datetime.time() return.                *)
(***************************************************************************)
Days == 0..MaxDay
Timestamps == 0..((MaxDay + 1) * TodPerDay - 1)

date_of(ts) == ts \div TodPerDay
time_of(ts) == ts % TodPerDay
combine(d, tod) == d * TodPerDay + tod

\* the tzinfo of a timestamp column: pymongo reads naive datetimes, both
\* transformers produce UTC-aware ones
TZs == {"naive", "UTC"}
\* start_date None (or empty): no date given
NoDate == 0 - 1

(***************************************************************************)
(* Symbols are character sequences, so that suffix stripping is computed.  *)
(***************************************************************************)
USDT == <<"U", "S", "D", "T">>
Keys == {<<"B">>, <<"E", "U", "S", "D", "T">>}

endswith(s, suffix) ==
    /\ Len(s) >= Len(suffix)
    /\ SubSeq(s, Len(s) - Len(suffix) + 1, Len(s)) = suffix

normalize_symbol(ticker) ==
    IF endswith(ticker, USDT) THEN SubSeq(ticker, 1, Len(ticker) - 4) ELSE ticker

StoredSymbols == {normalize_symbol(k) : k \in Keys}
FileNames == Keys \cup StoredSymbols

(***************************************************************************)
(* Data frames: a tz tag for the timestamp column and a sequence of rows.  *)
(***************************************************************************)
EmptyDF == [tz |-> "naive", rows |-> <<>>]
df_empty(df) == Len(df.rows) = 0

SetMin(S) == CHOOSE x \in S : \A y \in S : x <= y

RECURSIVE SortedSeq(_)
SortedSeq(S) ==
    IF S = {} THEN <<>>
    ELSE LET m == SetMin(S) IN <<m>> \o SortedSeq(S \ {m})

RECURSIVE Repeat(_, _)
Repeat(x, n) == IF n = 0 THEN <<>> ELSE <<x>> \o Repeat(x, n - 1)

RECURSIVE Flatten(_)
Flatten(ss) == IF ss = <<>> THEN <<>> ELSE Head(ss) \o Flatten(Tail(ss))

SeqToBag(s) ==
    LET els == {s[i] : i \in 1..Len(s)}
    IN  [e \in els |-> Cardinality({i \in 1..Len(s) : s[i] = e})]

\* extract_tickers: fetched maps each configured ticker to the timestamps
\* extracted for it; a ticker with no data gets no entry in the dict
extract_tickers(fetched) ==
    [k \in {t \in DOMAIN fetched : fetched[t] # {}} |-> fetched[k]]

\* BinanceAPITransform.transform / YFinanceTickersTransform.transform: the
\* rows of one extracted batch, in time order, tagged with the normalized symbol
transform(symbol, tss) ==
    LET order == SortedSeq(tss)
    IN  [tz |-> "UTC",
         rows |-> [i \in 1..Len(order) |->
                      [symbol |-> normalize_symbol(symbol), ts |-> order[i]]]]

Batches == {S \in SUBSET Timestamps : Cardinality(S) <= MaxBatch}
OneDayBatches == {S \in Batches : \A a, b \in S : date_of(a) = date_of(b)}

(***************************************************************************)
(* The collection: a bag of documents [symbol, ts] (timestamps are stored  *)
(* as UTC instants).                                                       *)
(***************************************************************************)
\* variant: the lower end of the window is excluded
Matches_open(doc, symbol, lo, hi) == doc.symbol = symbol /\ doc.ts > lo /\ doc.ts < hi

Matches(doc, symbol, lo, hi) == doc.symbol = symbol /\ doc.ts >= lo /\ doc.ts < hi

\* variant: the filter has no symbol
delete_many_any_symbol(coll, symbol, lo, hi) ==
    LET keep == {d \in DOMAIN coll : ~(d.ts >= lo /\ d.ts < hi)}
    IN  [d \in keep |-> coll[d]]

\* Collection.delete_many({"symbol": s, "timestamp": {"$gte": lo, "$lt": hi}})
delete_many(coll, symbol, lo, hi) ==
    LET keep == {d \in DOMAIN coll : ~Matches(d, symbol, lo, hi)}
    IN  [d \in keep |-> coll[d]]

\* Collection.insert_many(records)
insert_many(coll, records) == coll (+) SeqToBag(records)

\* Collection.find({"symbol": s, "timestamp": {"$gte": lo, "$lt": hi}}), as a list
find(coll, symbol, lo, hi) ==
    LET hits == {d \in DOMAIN coll : Matches(d, symbol, lo, hi)}
        order == SortedSeq({d.ts : d \in hits})
    IN  Flatten([i \in 1..Len(order) |->
                    Repeat([symbol |-> symbol, ts |-> order[i]],
                           coll[[symbol |-> symbol, ts |-> order[i]]])])

SetMax(S) == CHOOSE x \in S : \A y \in S : x >= y

\* Collection.find_one({"symbol": s}, sort=[("timestamp", -1)]): the timestamp
\* of the most recent document, or -1 for None
find_one_latest(coll, symbol) ==
    LET tss == {d.ts : d \in {e \in DOMAIN coll : e.symbol = symbol}}
    IN  IF tss = {} THEN -1 ELSE SetMax(tss)


(***************************************************************************)
(* The loader's pure steps.                                                *)
(***************************************************************************)
start_of_day(ts) == combine(date_of(ts), 0)
end_of_day(ts) == start_of_day(ts) + TodPerDay

\* variant: nothing is deleted before the insert
delete_existing_data_skip(coll, symbol, date) == coll

\* delete_existing_data(symbol, date)
delete_existing_data(coll, symbol, date) ==
    delete_many(coll, symbol, start_of_day(date), end_of_day(date))

\* insert_crypto_data: tz_localize('UTC') of a naive column, tz_convert('UTC')
\* of an aware one; a naive timestamp is read as a UTC instant
to_utc(df) == [df EXCEPT !.tz = "UTC"]

\* variant: the time of day is dropped
adjust_timestamp_midnight(new_date, ts) == combine(new_date, 0)

\* adjust_timestamp(ts) inside both recovery functions
adjust_timestamp(new_date, ts) == combine(new_date, time_of(ts))

adjust_rows(rows, new_date) ==
    [i \in 1..Len(rows) |-> [rows[i] EXCEPT !.ts = adjust_timestamp(new_date, rows[i].ts)]]

\* recover_last_day_data, after find_one: the documents of the last day,
\* rewritten to start_date
recover_last_day_data(coll, symbol, last_date, start_date) ==
    LET data == find(coll, symbol, combine(last_date, 0), combine(last_date, 0) + TodPerDay)
    IN  IF data = <<>> THEN EmptyDF
        ELSE [tz |-> "naive", rows |-> adjust_rows(data, start_date)]

\* recover_day_data_from_backup: file is <<>> when absent, <<rows>> otherwise
recover_day_data_from_backup(file, start_date, tz) ==
    IF file = <<>> THEN EmptyDF
    ELSE IF file[1] = <<>> THEN EmptyDF
    ELSE [tz |-> tz, rows |-> adjust_rows(file[1], start_date)]

\* load: what is done with the batch of one symbol
load_branch(df, start_date) ==
    IF df_empty(df) /\ start_date # NoDate THEN "tier1"
    ELSE IF df_empty(df) THEN "skip"
    ELSE "delete"

\* variant: the snapshot is read whatever tier 1 returned
after_tier1_both(df) == "tier2"

\* load: after recover_last_day_data returned df
after_tier1(df) == IF df_empty(df) THEN "tier2" ELSE "delete"

\* variant: an empty snapshot ends the call
after_tier2_abort(df) == IF df_empty(df) THEN "raised" ELSE "delete"

\* load: after recover_day_data_from_backup returned df
after_tier2(df) == IF df_empty(df) THEN "skip" ELSE "delete"

\* variant: the error leaves load
after_store_error_raise == "raised"

\* insert_crypto_data: its except clause swallows a failed delete or insert,
\* and load goes on with the next symbol
after_store_error == "loop"

(***************************************************************************)
(* State.                                                                  *)
(***************************************************************************)
VARIABLES
    store,      \* the time-series collection: a bag of [symbol, ts]
    backup,     \* snapshot files: file name -> <<>> (absent) or <<rows>>
    ld,         \* per calling thread: the load() call in progress
    nLoads,     \* load() calls started
    nItems,     \* symbols handed to load() calls
    nBackups,   \* backup_day_data() calls made
    nFaults,    \* store operations that have failed
    wide,       \* some batch handed to load() spanned more than one UTC day
    rt,         \* the retry wrapper's call in progress
    cached_client,          \* MongoDBConnectionFactory._cached_client
    client_creation_time,   \* MongoDBConnectionFactory._client_creation_time
    lock,       \* the thread inside "with MongoDBConnectionFactory._lock"
    now,        \* time.time(), in seconds
    made,       \* MongoClient objects constructed so far; the n-th one is n
    closed,     \* the clients close() was called on
    th,         \* thread -> its create_client call
    nCalls,     \* create_client calls begun
    nPingFails, \* liveness probes that failed
    nTicks,     \* TTL-long pauses taken
    bf,         \* the LoaderService.backfill_* call in progress
    cn,         \* a MongoDBConnector instance and the operation running on it
    cl,         \* the close_cached_client call of the shutdown handler
    rq,         \* an ad-hoc load request on its way through the endpoint
    mc,         \* the macro-indicator collection and the calls the last load made on it
    pf,         \* the portfolio-performance collection, the UTC day, and each thread's call in progress
    inst,       \* each connector instance: its references and the handles requested for it
    sc,         \* the submissions collection and each thread's clean_up_data call
    wr          \* the connector's insert_one / insert_many call in progress

loadVars == <<store, backup, ld, nLoads, nItems, nBackups, nFaults, wide>>
retryVars == <<rt>>
factoryVars == <<cached_client, client_creation_time, lock, now, made, closed,
                 th, nCalls, nPingFails, nTicks>>
backfillVars == <<bf>>
connVars == <<cn>>
closeVars == <<cl>>
requestVars == <<rq>>
macroVars == <<mc>>
portfolioVars == <<pf>>
instanceVars == <<inst>>
cleanerVars == <<sc>>
writeVars == <<wr>>
vars == <<loadVars, retryVars, factoryVars, backfillVars, connVars, closeVars, requestVars, macroVars, portfolioVars, instanceVars, cleanerVars, writeVars>>

LoadThreads == {"sched", "adhoc"}

\* pc, target, keys, key, df, last_date are the call's own state; the other
\* fields record what the call did:
\*   allkeys   the keys of data
\*   batch     the timestamps of the current symbol's extracted batch
\*   src       the rows a recovered df was rewritten from
\*   q1, q2    the current symbol's tier-1 query ("none", "empty", "found",
\*             "error") and whether its snapshot file was read
\*   ok        [key, rows] of every symbol whose insert succeeded
\*   bad       the keys whose delete or insert failed
\*   skipped   the keys that had no batch and no recovered data
\*   prev      <<[key, batch, target]>> when this call repeats the previous one
\*   snap      the store when this call began (kept for a repeated call)
\*   etl       the call is made by an ETL job
\*   data      the dict the ETL job hands to load()
\*   nodata    the configured tickers whose extraction returned nothing
\*   tried     the keys whose recovery was begun
\*   q2err     reading or parsing the current symbol's snapshot file raised
\*   unavail   self.db raised ConnectionFailure in this call: no connection
\*             could be established
\*   dcalls    invocations of delete_many for the current symbol
\*   icalls    invocations of insert_many for the current symbol
IdleLoad ==
    [pc |-> "idle", target |-> NoDate, keys |-> {}, allkeys |-> {},
     key |-> <<>>, batch |-> {}, df |-> EmptyDF, src |-> EmptyDF,
     last_date |-> -1, q1 |-> "none", q2 |-> FALSE,
     ok |-> {}, bad |-> {}, skipped |-> {}, prev |-> <<>>, snap |-> EmptyBag,
     etl |-> FALSE, data |-> <<>>, nodata |-> {}, tried |-> {},
     q2err |-> FALSE, unavail |-> FALSE, dcalls |-> 0, icalls |-> 0]

\* start_date is always a "YYYYMMDD" date in the callers
Targets == Days

InitLoad ==
    /\ store = EmptyBag
    /\ backup = [f \in FileNames |-> <<>>]
    /\ ld = [t \in LoadThreads |-> IdleLoad]
    /\ nLoads = 0
    /\ nItems = 0
    /\ nBackups = 0
    /\ nFaults = 0
    /\ wide = FALSE

Ended(t) == ld[t].pc \in {"done", "raised"}
Quiet == \A t \in LoadThreads : ld[t].pc \in {"idle", "done", "raised"}

\* a call of load({key: batch}, target) that returned without a store error
Summary(l) ==
    IF /\ l.pc = "done"
       /\ l.allkeys = {l.key}
       /\ l.bad = {}
    THEN <<[key |-> l.key, batch |-> l.batch, target |-> l.target]>>
    ELSE <<>>

\* a store operation fails (fail) or not
Fault(fail) ==
    /\ fail => nFaults < MaxFaults
    /\ nFaults' = IF fail THEN nFaults + 1 ELSE nFaults

\* MongoDBConnector.db, evaluated for self.db[...]: the database, or
\* ConnectionFailure when get_database gave up
DbOutcomes == {"ok", "ConnectionFailure"}

(***************************************************************************)
(* load(data, start_date), one step at a time.  The dict is iterated in    *)
(* insertion order; the model picks the next key and its batch lazily.     *)
(***************************************************************************)
LoadBegin(t, keys, start_date) ==
    /\ ld[t].pc \in {"idle", "done", "raised"}
    /\ nLoads < MaxLoads
    /\ nItems + Cardinality(keys) <= MaxItems
    /\ nLoads' = nLoads + 1
    /\ nItems' = nItems + Cardinality(keys)
    /\ LET last == Summary(ld[t])
           again == /\ last # <<>>
                    /\ keys = {last[1].key}
                    /\ start_date = last[1].target
       IN  ld' = [ld EXCEPT ![t] =
                [IdleLoad EXCEPT !.pc = "loop", !.target = start_date,
                                 !.keys = keys, !.allkeys = keys,
                                 !.prev = IF again THEN last ELSE <<>>,
                                 !.snap = IF again THEN store ELSE EmptyBag]]
    /\ UNCHANGED <<store, backup, nBackups, nFaults, wide>>

\* load, lines 220-232: the next symbol of the dict and its batch
LoadNext(t, key, tss) ==
    /\ ld[t].pc = "loop"
    /\ key \in ld[t].keys
    /\ ld[t].etl => tss = ld[t].data[key]
    /\ LET l == ld[t]
           df == transform(key, tss)
           br == load_branch(df, l.target)
           again == l.prev # <<>> /\ tss = l.prev[1].batch
       IN  ld' = [ld EXCEPT ![t] =
                [l EXCEPT !.key = key, !.batch = tss, !.df = df,
                          !.src = EmptyDF, !.last_date = -1,
                          !.q1 = "none", !.q2 = FALSE, !.q2err = FALSE,
                          !.dcalls = 0, !.icalls = 0,
                          !.prev = IF again THEN @ ELSE <<>>,
                          !.snap = IF again THEN @ ELSE EmptyBag,
                          !.keys = IF br = "skip" THEN @ \ {key} ELSE @,
                          !.skipped = IF br = "skip" THEN @ \cup {key} ELSE @,
                          !.tried = IF br = "tier1" THEN @ \cup {key} ELSE @,
                          !.pc = IF br = "skip" THEN "loop" ELSE br]]
    /\ wide' = (wide \/ tss \notin OneDayBatches)
    /\ UNCHANGED <<store, backup, nLoads, nItems, nBackups, nFaults>>

\* recover_last_day_data, line 125: find_one sorted by timestamp descending;
\* an error of the store is not caught by load
Tier1FindOne(t, fail, db) ==
    /\ ld[t].pc = "tier1"
    /\ Fault(fail)
    /\ db = "ConnectionFailure" => fail
    /\ LET l == ld[t]
           last == find_one_latest(store, l.key)
       IN  ld' = [ld EXCEPT ![t] =
                IF fail
                THEN [l EXCEPT !.pc = "raised", !.q1 = "error",
                               !.unavail = (db = "ConnectionFailure")]
                ELSE IF last = -1
                THEN [l EXCEPT !.pc = after_tier1(EmptyDF), !.df = EmptyDF,
                               !.q1 = "empty"]
                ELSE [l EXCEPT !.pc = "tier1_find", !.last_date = date_of(last)]]
    /\ UNCHANGED <<store, backup, nLoads, nItems, nBackups, wide>>

\* recover_last_day_data, lines 134-161: find the last day and rewrite it
Tier1Find(t, fail, db) ==
    /\ ld[t].pc = "tier1_find"
    /\ Fault(fail)
    /\ db = "ConnectionFailure" => fail
    /\ LET l == ld[t]
           df == recover_last_day_data(store, l.key, l.last_date, l.target)
           src == [tz |-> "naive",
                   rows |-> find(store, l.key, combine(l.last_date, 0),
                                 combine(l.last_date, 0) + TodPerDay)]
       IN  ld' = [ld EXCEPT ![t] =
                IF fail
                THEN [l EXCEPT !.pc = "raised", !.q1 = "error",
                               !.unavail = (db = "ConnectionFailure")]
                ELSE [l EXCEPT !.pc = after_tier1(df), !.df = df, !.src = src,
                               !.q1 = IF df_empty(df) THEN "empty" ELSE "found"]]
    /\ UNCHANGED <<store, backup, nLoads, nItems, nBackups, wide>>

\* recover_day_data_from_backup; tz is what json_util.loads gives the dates.
\* Opening or parsing a file that exists can fail (fail): the error is not
\* caught by recover_day_data_from_backup nor by load
Tier2(t, tz, fail) ==
    /\ ld[t].pc = "tier2"
    /\ Fault(fail)
    /\ fail => backup[ld[t].key] # <<>>
    /\ LET l == ld[t]
           file == backup[l.key]
           df == recover_day_data_from_backup(file, l.target, tz)
           br == after_tier2(df)
       IN  ld' = [ld EXCEPT ![t] =
                IF fail
                THEN [l EXCEPT !.pc = "raised", !.q2 = TRUE, !.q2err = TRUE]
                ELSE
                [l EXCEPT !.pc = IF br = "skip" THEN "loop" ELSE br,
                          !.df = df,
                          !.src = IF df_empty(df) THEN EmptyDF
                                  ELSE [tz |-> tz, rows |-> file[1]],
                          !.keys = IF br = "skip" THEN @ \ {l.key} ELSE @,
                          !.skipped = IF br = "skip" THEN @ \cup {l.key} ELSE @,
                          !.q2 = TRUE]]
    /\ UNCHANGED <<store, backup, nLoads, nItems, nBackups, wide>>

\* insert_crypto_data, lines 77-88: normalise the tz, delete the day of the
\* first row.  A failed delete_many may or may not have been applied.
Delete(t, fail, applied, db) ==
    /\ ld[t].pc = "delete"
    /\ Fault(fail)
    /\ (~fail => applied)
    /\ db = "ConnectionFailure" => (fail /\ ~applied)
    /\ LET l == ld[t]
           df == to_utc(l.df)
           after == delete_existing_data(store, df.rows[1].symbol, df.rows[1].ts)
       IN  /\ store' = IF applied THEN after ELSE store
           /\ ld' = [ld EXCEPT ![t] =
                IF fail
                THEN [l EXCEPT !.pc = after_store_error, !.df = df,
                               !.keys = IF after_store_error = "loop"
                                        THEN @ \ {l.key} ELSE @,
                               !.dcalls = IF db = "ok" THEN @ + 1 ELSE @,
                               !.unavail = (db = "ConnectionFailure"),
                               !.bad = @ \cup {l.key}]
                ELSE [l EXCEPT !.pc = "insert", !.df = df, !.dcalls = @ + 1]]
    /\ UNCHANGED <<backup, nLoads, nItems, nBackups, wide>>

\* insert_crypto_data, lines 90-108: insert_many(records); a failed ordered
\* insert leaves the first n records inserted
Insert(t, fail, n, db) ==
    /\ ld[t].pc = "insert"
    /\ Fault(fail)
    /\ db = "ConnectionFailure" => (fail /\ n = 0)
    /\ LET l == ld[t]
           records == l.df.rows
       IN  /\ n \in 0..Len(records)
           /\ (~fail => n = Len(records))
           /\ store' = insert_many(store, SubSeq(records, 1, n))
           /\ ld' = [ld EXCEPT ![t] =
                IF fail
                THEN [l EXCEPT !.pc = after_store_error,
                               !.keys = IF after_store_error = "loop"
                                        THEN @ \ {l.key} ELSE @,
                               !.icalls = IF db = "ok" THEN @ + 1 ELSE @,
                               !.unavail = (db = "ConnectionFailure"),
                               !.bad = @ \cup {l.key}]
                ELSE [l EXCEPT !.pc = "loop",
                               !.icalls = @ + 1,
                               !.keys = @ \ {l.key},
                               !.ok = @ \cup {[key |-> l.key, rows |-> records]}]]
    /\ UNCHANGED <<backup, nLoads, nItems, nBackups, wide>>

\* the for loop is exhausted: load returns
LoadReturn(t) ==
    /\ ld[t].pc = "loop"
    /\ ld[t].keys = {}
    /\ ld' = [ld EXCEPT ![t].pc = "done"]
    /\ UNCHANGED <<store, backup, nLoads, nItems, nBackups, nFaults, wide>>

\* BinanceAPIBackup.backup_day_data([symbol], backup_date)
backup_day_data(symbol, backup_date) ==
    /\ Quiet
    /\ nBackups < MaxBackups
    /\ nLoads < MaxLoads
    /\ nBackups' = nBackups + 1
    /\ backup' = [backup EXCEPT ![symbol] =
                    <<find(store, symbol, combine(backup_date, 0),
                           combine(backup_date, 0) + TodPerDay)>>]
    /\ UNCHANGED <<store, ld, nLoads, nItems, nFaults, wide>>

LoadStep(t, B) ==
    \/ \E keys \in (SUBSET Keys) \ {{}}, d \in Targets : LoadBegin(t, keys, d)
    \/ \E key \in Keys, tss \in B : LoadNext(t, key, tss)
    \/ \E fail \in BOOLEAN, db \in DbOutcomes : Tier1FindOne(t, fail, db)
    \/ \E fail \in BOOLEAN, db \in DbOutcomes : Tier1Find(t, fail, db)
    \/ \E tz \in TZs, fail \in BOOLEAN : Tier2(t, tz, fail)
    \/ \E fail, applied \in BOOLEAN, db \in DbOutcomes : Delete(t, fail, applied, db)
    \/ \E fail \in BOOLEAN, n \in 0..MaxBatch, db \in DbOutcomes : Insert(t, fail, n, db)
    \/ LoadReturn(t)

Backup == \E s \in StoredSymbols, d \in Days : backup_day_data(s, d)

(***************************************************************************)
(* retry_on_connection_error(max_attempts, delay, backoff) around func.    *)
(***************************************************************************)
\* the decorator's defaults
max_attempts_default == 3
delay_default == 1
backoff_default == 2

\* what one invocation of func does
Outcomes == {"ok", "ConnectionFailure", "ServerSelectionTimeoutError", "OperationFailure"}

is_connection_error_any(e) == e # "ok"

\* except (ConnectionFailure, ServerSelectionTimeoutError)
is_connection_error(e) == e \in {"ConnectionFailure", "ServerSelectionTimeoutError"}

will_retry_short(attempt, max_attempts) == attempt < max_attempts - 2

\* if attempt < max_attempts - 1
will_retry(attempt, max_attempts) == attempt < max_attempts - 1

next_delay_constant(current_delay) == current_delay

\* current_delay *= backoff
next_delay(current_delay) == current_delay * backoff_default

\* the instance's cached database reference
Handle == "db"
NoHandle == "None"

\*   calls      invocations of func so far
\*   sleeps     the delays slept so far
\*   failures   the errors func raised so far
\*   db0, db    the instance's _db when the call began, and now
\*   has_db     hasattr(args[0], '_db')
IdleRetry ==
    [pc |-> "idle", max_attempts |-> 0, attempt |-> 0, current_delay |-> 0,
     last_error |-> "None", error |-> "None", calls |-> 0, sleeps |-> <<>>,
     failures |-> <<>>, has_db |-> FALSE, db0 |-> NoHandle, db |-> NoHandle]

InitRetry == rt = IdleRetry

\* wrapper(*args, **kwargs) is entered
RetryCall(m, has_db, db) ==
    /\ rt.pc \in {"idle", "returned", "raised"}
    /\ rt' = [IdleRetry EXCEPT !.pc = "try", !.max_attempts = m,
                               !.current_delay = delay_default,
                               !.has_db = has_db, !.db0 = db, !.db = db]

\* lines 38-60: one pass of the for loop, up to the sleep
RetryAttempt(outcome) ==
    /\ rt.pc = "try"
    /\ rt' =
        IF outcome = "ok"
        THEN [rt EXCEPT !.pc = "returned", !.calls = @ + 1]
        ELSE IF is_connection_error(outcome)
        THEN IF will_retry(rt.attempt, rt.max_attempts)
             THEN [rt EXCEPT !.pc = "sleep", !.calls = @ + 1,
                             !.last_error = outcome,
                             !.failures = Append(@, outcome)]
             ELSE [rt EXCEPT !.pc = "raised", !.calls = @ + 1,
                             !.last_error = outcome, !.error = outcome,
                             !.attempt = @ + 1,
                             !.failures = Append(@, outcome)]
        ELSE [rt EXCEPT !.pc = "raised", !.calls = @ + 1, !.error = outcome,
                        !.failures = Append(@, outcome)]

\* lines 48-53: sleep, grow the delay, drop the instance's _db
RetrySleep ==
    /\ rt.pc = "sleep"
    /\ rt' = [rt EXCEPT !.pc = "try",
                        !.sleeps = Append(@, rt.current_delay),
                        !.current_delay = next_delay(@),
                        !.db = IF rt.has_db THEN NoHandle ELSE @,
                        !.attempt = @ + 1]

NextRetry ==
    /\ \/ \E m \in 1..MaxAttempts, has_db \in BOOLEAN, db \in {NoHandle, Handle} :
             RetryCall(m, has_db, db)
       \/ \E outcome \in Outcomes : RetryAttempt(outcome)
       \/ RetrySleep
    /\ UNCHANGED <<loadVars, factoryVars, backfillVars, connVars, closeVars, requestVars, macroVars, portfolioVars, instanceVars, cleanerVars, writeVars>>

(***************************************************************************)
(* MongoDBConnectionFactory.create_client.  Every read and write of the    *)
(* class attributes is a step of its own; the step names are the source    *)
(* lines.                                                                  *)
(***************************************************************************)
client_lifetime == 3600
\* wait_time = min(30, 2 ** attempt)
max_wait == 30
\* serverSelectionTimeoutMS / connectTimeoutMS / socketTimeoutMS, in seconds
probe_timeout == 5
\* get_database(max_retry_time = 30), as MongoDBConnector.db calls it
db_max_retry_time == 30
\* get_database(max_retry_time=5), as the health endpoint calls it
health_max_retry_time == 5
create_client_max_retry_time == 300
\* self.min_documents_per_asset = 40
min_documents_per_asset == 40
RetryTimes == {health_max_retry_time, db_max_retry_time}
\* create_client called as such: its own default budget as well
EstablishTimes == RetryTimes \cup {create_client_max_retry_time}

Threads == {"t1", "t2"}
NoThread == "None"
NoClient == 0
NoTime == 0 - 1

Min(a, b) == IF a < b THEN a ELSE b
wait_time_uncapped(attempt) == 2 ^ attempt

wait_time(attempt) == Min(max_wait, 2 ^ attempt)

\* a failed probe returns at once or after its timeout
ProbeTimes == {0, probe_timeout}

\* variant: leaving the with block keeps the lock
release_never(l) == l

\* leaving "with MongoDBConnectionFactory._lock", by return or by exception
release(l) == NoThread

lock_free_always(l) == TRUE

\* with MongoDBConnectionFactory._lock: the lock can be taken
lock_free(l) == l = NoThread

is_fresh_always(age) == TRUE

\* if age < MongoDBConnectionFactory._client_lifetime
is_fresh(age) == age < client_lifetime

fast_path_next_ignore(ok) == "L99"

\* lines 96-102: return the cached client if the probe succeeded, else go on
\* to the lock
fast_path_next(ok) == IF ok THEN "L99" ELSE "L105"

\*   probe      outcome of the call's last probe of the cached client
\*   probed     the client that probe was sent to
\*   made0      clients constructed before the call
\*   attempts   clients the call constructed
\*   estab_fail establishment probes of the call that failed
\*   slow       the call took the lock
\*   prev_ret   what the thread's previous call returned
\*   prev_probe the probe field of the thread's previous call
\*   stale      the cached client, when its age had reached the lifetime as
\*              the call began, and stale_time its creation time
IdleCall ==
    [pc |-> "idle", max_retry_time |-> 0, start_time |-> 0, attempt |-> 0,
     client |-> NoClient, ret |-> NoClient, err |-> "None",
     probe |-> "none", probed |-> NoClient, made0 |-> 0, attempts |-> 0,
     estab_fail |-> 0, slow |-> FALSE, prev_ret |-> NoClient,
     prev_probe |-> "none",
     last_error |-> NoClient,   \* the client whose attempt failed last
     msg_error |-> NoClient,    \* the last_error put into error_msg
     stale |-> NoClient, stale_time |-> NoTime]

InitFactory ==
    /\ cached_client = NoClient
    /\ client_creation_time = NoTime
    /\ lock = NoThread
    /\ now = 0
    /\ made = 0
    /\ closed = {}
    /\ th = [t \in Threads |-> IdleCall]
    /\ nCalls = 0
    /\ nPingFails = 0
    /\ nTicks = 0

CallEnded(t) == th[t].pc \in {"idle", "returned", "raised"}

\* the outcomes a probe can have now
ProbeOutcomes == IF nPingFails < MaxPingFails THEN BOOLEAN ELSE {TRUE}

\* there is a cached client and its age has reached the lifetime; between
\* L153 and L154 the creation time is still the replaced client's
Stale ==
    /\ cached_client # NoClient
    /\ client_creation_time # NoTime
    /\ \A u \in Threads : th[u].pc # "L154"
    /\ now - client_creation_time >= client_lifetime

\* create_client(max_retry_time) is entered
Call(t, m) ==
    /\ CallEnded(t)
    /\ nCalls < MaxCalls
    /\ nCalls' = nCalls + 1
    /\ th' = [th EXCEPT ![t] =
                 [IdleCall EXCEPT !.pc = "L93", !.max_retry_time = m,
                                  !.made0 = made,
                                  !.prev_ret = IF th[t].pc = "returned"
                                               THEN th[t].ret ELSE NoClient,
                                  !.prev_probe = th[t].probe,
                                  !.stale = IF Stale THEN cached_client
                                            ELSE NoClient,
                                  !.stale_time = IF Stale
                                                 THEN client_creation_time
                                                 ELSE NoTime]]
    /\ UNCHANGED <<cached_client, client_creation_time, lock, now, made,
                   closed, nPingFails, nTicks>>

\* if _cached_client is not None
L93(t) ==
    /\ th[t].pc = "L93"
    /\ th' = [th EXCEPT ![t].pc =
                 IF cached_client # NoClient THEN "L94" ELSE "L105"]
    /\ UNCHANGED <<cached_client, client_creation_time, lock, now, made,
                   closed, nCalls, nPingFails, nTicks>>

\* age = time.time() - _client_creation_time; if age < _client_lifetime
L94(t) ==
    /\ th[t].pc = "L94"
    /\ th' = [th EXCEPT ![t] =
                 IF client_creation_time = NoTime
                 THEN [@ EXCEPT !.pc = "raised", !.err = "TypeError"]
                 ELSE IF is_fresh(now - client_creation_time)
                 THEN [@ EXCEPT !.pc = "L98"]
                 ELSE [@ EXCEPT !.pc = "L105"]]
    /\ UNCHANGED <<cached_client, client_creation_time, lock, now, made,
                   closed, nCalls, nPingFails, nTicks>>

\* _cached_client.admin.command('ping'), except Exception
L98(t, ok, d) ==
    /\ th[t].pc = "L98"
    /\ IF cached_client = NoClient
       THEN /\ th' = [th EXCEPT ![t].pc = "L105"]
            /\ UNCHANGED <<now, nPingFails>>
       ELSE IF ok
       THEN /\ th' = [th EXCEPT ![t].pc = fast_path_next(TRUE),
                                ![t].probe = "ok",
                                ![t].probed = cached_client]
            /\ UNCHANGED <<now, nPingFails>>
       ELSE /\ th' = [th EXCEPT ![t].pc = fast_path_next(FALSE),
                                ![t].probe = "failed",
                                ![t].probed = cached_client]
            /\ now' = now + d
            /\ nPingFails' = nPingFails + 1
    /\ UNCHANGED <<cached_client, client_creation_time, lock, made, closed,
                   nCalls, nTicks>>

\* return _cached_client
L99(t) ==
    /\ th[t].pc = "L99"
    /\ th' = [th EXCEPT ![t].pc = "returned", ![t].ret = cached_client]
    /\ UNCHANGED <<cached_client, client_creation_time, lock, now, made,
                   closed, nCalls, nPingFails, nTicks>>

\* with _lock:
L105(t) ==
    /\ th[t].pc = "L105"
    /\ lock_free(lock)
    /\ lock' = t
    /\ th' = [th EXCEPT ![t].pc = "L107", ![t].slow = TRUE]
    /\ UNCHANGED <<cached_client, client_creation_time, now, made, closed,
                   nCalls, nPingFails, nTicks>>

\* if _cached_client is not None
L107(t) ==
    /\ th[t].pc = "L107"
    /\ th' = [th EXCEPT ![t].pc =
                 IF cached_client # NoClient THEN "L108" ELSE "L117"]
    /\ UNCHANGED <<cached_client, client_creation_time, lock, now, made,
                   closed, nCalls, nPingFails, nTicks>>

\* age = time.time() - _client_creation_time; if age < _client_lifetime
L108(t) ==
    /\ th[t].pc = "L108"
    /\ IF client_creation_time = NoTime
       THEN /\ th' = [th EXCEPT ![t].pc = "raised", ![t].err = "TypeError"]
            /\ lock' = release(lock)
       ELSE /\ th' = [th EXCEPT ![t].pc =
                        IF is_fresh(now - client_creation_time)
                        THEN "L111" ELSE "L117"]
            /\ UNCHANGED lock
    /\ UNCHANGED <<cached_client, client_creation_time, now, made, closed,
                   nCalls, nPingFails, nTicks>>

\* _cached_client.admin.command('ping'), except: pass
L111(t, ok, d) ==
    /\ th[t].pc = "L111"
    /\ IF cached_client = NoClient
       THEN /\ th' = [th EXCEPT ![t].pc = "L117"]
            /\ UNCHANGED <<now, nPingFails>>
       ELSE IF ok
       THEN /\ th' = [th EXCEPT ![t].pc = "L112", ![t].probe = "ok",
                                ![t].probed = cached_client]
            /\ UNCHANGED <<now, nPingFails>>
       ELSE /\ th' = [th EXCEPT ![t].pc = "L117", ![t].probe = "failed",
                                ![t].probed = cached_client]
            /\ now' = now + d
            /\ nPingFails' = nPingFails + 1
    /\ UNCHANGED <<cached_client, client_creation_time, lock, made, closed,
                   nCalls, nTicks>>

\* return _cached_client, leaving the with block
L112(t) ==
    /\ th[t].pc = "L112"
    /\ th' = [th EXCEPT ![t].pc = "returned", ![t].ret = cached_client]
    /\ lock' = release(lock)
    /\ UNCHANGED <<cached_client, client_creation_time, now, made, closed,
                   nCalls, nPingFails, nTicks>>

\* if _cached_client is not None
L117(t) ==
    /\ th[t].pc = "L117"
    /\ th' = [th EXCEPT ![t].pc =
                 IF cached_client # NoClient THEN "L119" ELSE "L128"]
    /\ UNCHANGED <<cached_client, client_creation_time, lock, now, made,
                   closed, nCalls, nPingFails, nTicks>>

\* _cached_client.close(), except: pass
L119(t) ==
    /\ th[t].pc = "L119"
    /\ closed' = IF cached_client # NoClient
                 THEN closed \cup {cached_client} ELSE closed
    /\ th' = [th EXCEPT ![t].pc = "L122"]
    /\ UNCHANGED <<cached_client, client_creation_time, lock, now, made,
                   nCalls, nPingFails, nTicks>>

\* _cached_client = None
L122(t) ==
    /\ th[t].pc = "L122"
    /\ cached_client' = NoClient
    /\ th' = [th EXCEPT ![t].pc = "L128"]
    /\ UNCHANGED <<client_creation_time, lock, now, made, closed, nCalls,
                   nPingFails, nTicks>>

\* start_time = time.time(); attempt = 0
L128(t) ==
    /\ th[t].pc = "L128"
    /\ th' = [th EXCEPT ![t].pc = "L132", ![t].start_time = now,
                        ![t].attempt = 0]
    /\ UNCHANGED <<cached_client, client_creation_time, lock, now, made,
                   closed, nCalls, nPingFails, nTicks>>

\* while time.time() - start_time < max_retry_time
L132(t) ==
    /\ th[t].pc = "L132"
    /\ th' = [th EXCEPT ![t].pc =
                 IF now - th[t].start_time < th[t].max_retry_time
                 THEN "L134" ELSE "L172"]
    /\ UNCHANGED <<cached_client, client_creation_time, lock, now, made,
                   closed, nCalls, nPingFails, nTicks>>

\* client = MongoClient(...); client.admin.command('ping')
L134(t, ok, d) ==
    /\ th[t].pc = "L134"
    /\ made' = made + 1
    /\ IF ok
       THEN /\ th' = [th EXCEPT ![t].pc = "L153", ![t].client = made + 1,
                                ![t].attempts = @ + 1]
            /\ UNCHANGED <<now, nPingFails>>
       ELSE /\ th' = [th EXCEPT ![t].pc = "L159", ![t].client = made + 1,
                                ![t].attempts = @ + 1,
                                ![t].estab_fail = @ + 1]
            /\ now' = now + d
            /\ nPingFails' = nPingFails + 1
    /\ UNCHANGED <<cached_client, client_creation_time, lock, closed, nCalls,
                   nTicks>>

\* _cached_client = client
L153(t) ==
    /\ th[t].pc = "L153"
    /\ cached_client' = th[t].client
    /\ th' = [th EXCEPT ![t].pc = "L154"]
    /\ UNCHANGED <<client_creation_time, lock, now, made, closed, nCalls,
                   nPingFails, nTicks>>

\* _client_creation_time = time.time()
L154(t) ==
    /\ th[t].pc = "L154"
    /\ client_creation_time' = now
    /\ th' = [th EXCEPT ![t].pc = "L156"]
    /\ UNCHANGED <<cached_client, lock, now, made, closed, nCalls,
                   nPingFails, nTicks>>

\* return client, leaving the with block
L156(t) ==
    /\ th[t].pc = "L156"
    /\ th' = [th EXCEPT ![t].pc = "returned", ![t].ret = th[t].client]
    /\ lock' = release(lock)
    /\ UNCHANGED <<cached_client, client_creation_time, now, made, closed,
                   nCalls, nPingFails, nTicks>>

\* except Exception: attempt += 1; wait_time; time.sleep(wait_time) or break
L159(t) ==
    /\ th[t].pc = "L159"
    /\ IF now - th[t].start_time + wait_time(th[t].attempt + 1)
            < th[t].max_retry_time
       THEN /\ now' = now + wait_time(th[t].attempt + 1)
            /\ th' = [th EXCEPT ![t].pc = "L132", ![t].attempt = @ + 1,
                                ![t].last_error = th[t].client]
       ELSE /\ th' = [th EXCEPT ![t].pc = "L172", ![t].attempt = @ + 1,
                                ![t].last_error = th[t].client]
            /\ UNCHANGED now
    /\ UNCHANGED <<cached_client, client_creation_time, lock, made, closed,
                   nCalls, nPingFails, nTicks>>

\* raise ConnectionFailure(error_msg), leaving the with block
L172(t) ==
    /\ th[t].pc = "L172"
    /\ th' = [th EXCEPT ![t].pc = "raised", ![t].err = "ConnectionFailure",
                        ![t].msg_error = th[t].last_error]
    /\ lock' = release(lock)
    /\ UNCHANGED <<cached_client, client_creation_time, now, made, closed,
                   nCalls, nPingFails, nTicks>>

\* the cached client's lifetime passes
Tick ==
    /\ nTicks < MaxTicks
    /\ nTicks' = nTicks + 1
    /\ now' = now + client_lifetime
    /\ UNCHANGED <<cached_client, client_creation_time, lock, made, closed,
                   th, nCalls, nPingFails>>

create_client(t) ==
    \/ \E m \in RetryTimes : Call(t, m)
    \/ L93(t)
    \/ L94(t)
    \/ \E ok \in ProbeOutcomes, d \in ProbeTimes : L98(t, ok, d)
    \/ L99(t)
    \/ L105(t)
    \/ L107(t)
    \/ L108(t)
    \/ \E ok \in ProbeOutcomes, d \in ProbeTimes : L111(t, ok, d)
    \/ L112(t)
    \/ L117(t)
    \/ L119(t)
    \/ L122(t)
    \/ L128(t)
    \/ L132(t)
    \/ \E ok \in ProbeOutcomes, d \in ProbeTimes : L134(t, ok, d)
    \/ L153(t)
    \/ L154(t)
    \/ L156(t)
    \/ L159(t)
    \/ L172(t)

\* threads calling create_client concurrently
NextFactory ==
    /\ \/ \E t \in Threads : create_client(t)
       \/ Tick
    /\ UNCHANGED <<loadVars, retryVars, backfillVars, connVars, closeVars, requestVars, macroVars, portfolioVars, instanceVars, cleanerVars, writeVars>>

\* one thread calling create_client again and again
NextFactorySeq ==
    /\ \/ create_client("t1")
       \/ Tick
    /\ UNCHANGED <<loadVars, retryVars, backfillVars, connVars, closeVars, requestVars, macroVars, portfolioVars, instanceVars, cleanerVars, writeVars>>

(***************************************************************************)
(* LoaderService.backfill_* : one per-date load after another              *)
(***************************************************************************)

BackfillDays == 0..MaxBackfillDay
Sources == {"yfinance", "binance"}

IdleBackfill ==
    [pc |-> "idle", source |-> "yfinance", start_date |-> 0, end_date |-> 0,
     current_date |-> 0,    \* the date the loop is at
     today |-> 0,           \* datetime.now(self.utc), as a day
     err |-> "none",        \* the exception the call ended with
     called |-> {},         \* dates load_*_data(date_str) was called for
     loaded |-> {},         \* dates loader.load(...) was called for
     failed |-> {}]         \* dates whose load_*_data call raised

InitBackfill == bf = IdleBackfill

BackfillEnded == bf.pc \in {"idle", "returned", "raised"}

\* L395-404 / L432-441: the call; the clock does not reach back before
\* a date it already showed
BackfillBegin(source, start_date, end_date, today) ==
    /\ BackfillEnded
    /\ bf' = [IdleBackfill EXCEPT !.pc = "while", !.source = source,
                                  !.start_date = start_date,
                                  !.end_date = end_date,
                                  !.current_date = start_date,
                                  !.today = today]

\* L405-407 / L442-444: while current_date <= end_date: load_*_data(date_str)
BackfillWhile ==
    /\ bf.pc = "while"
    /\ bf' = IF bf.current_date <= bf.end_date
             THEN [bf EXCEPT !.pc = "validate",
                             !.called = @ \cup {bf.current_date}]
             ELSE [bf EXCEPT !.pc = "returned"]

\* L82-84 / L169-171: date_str >= current_date raises ValueError; nothing
\* in the backfill loop catches it
LoadValidate ==
    /\ bf.pc = "validate"
    /\ bf' = IF bf.current_date >= bf.today
             THEN [bf EXCEPT !.pc = "raised", !.err = "ValueError",
                             !.failed = @ \cup {bf.current_date}]
             ELSE [bf EXCEPT !.pc = "extract"]

\* L97-106 / L182-198: extract and transform; binance skips load and
\* clean-up when nothing was transformed (L201, L208-209), yfinance calls
\* load regardless (L109-110)
LoadExtract(transformed_data) ==
    /\ bf.pc = "extract"
    /\ bf' = IF bf.source = "binance" /\ ~transformed_data
             THEN [bf EXCEPT !.pc = "advance"]
             ELSE [bf EXCEPT !.pc = "load"]

\* L109-110 / L202-203: loader.load(transformed_data, start_date)
LoadLoad ==
    /\ bf.pc = "load"
    /\ bf' = [bf EXCEPT !.pc = "clean",
                        !.loaded = @ \cup {bf.current_date}]

\* L113-114 / L206-207: cleaner.run() reads self.db and counts documents
\* outside any try, so a database error leaves load_*_data as an exception
LoadClean(db) ==
    /\ bf.pc = "clean"
    /\ bf' = IF db = "ok"
             THEN [bf EXCEPT !.pc = "advance"]
             ELSE [bf EXCEPT !.pc = "raised", !.err = db,
                             !.failed = @ \cup {bf.current_date}]

\* L408 / L445: current_date += timedelta(days=1)
BackfillAdvance ==
    /\ bf.pc = "advance"
    /\ bf' = [bf EXCEPT !.pc = "while", !.current_date = @ + 1]

NextBackfill ==
    /\ \/ \E source \in Sources, s \in BackfillDays, e \in BackfillDays,
             today \in 0..(MaxBackfillDay + 1) :
             BackfillBegin(source, s, e, today)
       \/ BackfillWhile
       \/ LoadValidate
       \/ \E transformed_data \in BOOLEAN : LoadExtract(transformed_data)
       \/ LoadLoad
       \/ \E db \in DbOutcomes : LoadClean(db)
       \/ BackfillAdvance
    /\ UNCHANGED <<loadVars, retryVars, factoryVars, connVars, closeVars, requestVars, macroVars, portfolioVars, instanceVars, cleanerVars, writeVars>>

\* the steps of a create_client call that finds nothing cached, whatever
\* the probes do
EstablishStep(t) ==
    \/ L93(t)
    \/ L105(t)
    \/ L107(t)
    \/ L117(t)
    \/ L128(t)
    \/ L132(t)
    \/ \E ok \in BOOLEAN, d \in ProbeTimes : L134(t, ok, d)
    \/ L153(t)
    \/ L154(t)
    \/ L156(t)
    \/ L159(t)
    \/ L172(t)

EstablishRun ==
    EstablishStep("t1") /\ UNCHANGED <<loadVars, retryVars, backfillVars, connVars, closeVars, requestVars, macroVars, portfolioVars, instanceVars, cleanerVars, writeVars>>

\* one thread calling create_client, with any budget, while no client is
\* cached; the server may stay down for as long as a call lasts
NextEstablish ==
    \/ /\ cached_client = NoClient
       /\ \E m \in EstablishTimes : Call("t1", m)
       /\ UNCHANGED <<loadVars, retryVars, backfillVars, connVars, closeVars, requestVars, macroVars, portfolioVars, instanceVars, cleanerVars, writeVars>>
    \/ EstablishRun

(***************************************************************************)
(* MongoDBConnector: the db property and the decorated operations          *)
(***************************************************************************)

\* the decorated methods; each of them but get_collection calls
\* self.get_collection first, which is decorated as well
Ops == {"get_collection", "insert_one", "insert_many", "find", "update_one",
        "update_many", "delete_one", "delete_many"}

\* the reference the instance held when the operation began; a reference
\* obtained from the factory during the operation is the number of the
\* get_database call that returned it
HeldHandle == 0

\* self._db = None
NoRef == 0 - 1

invalidate_keep(db) == db

\* if hasattr(args[0], '_db'): args[0]._db = None
invalidate(db) == NoRef

\*   db, client       self._db, self._client
\*   attempt, current_delay      the wrapper of the called method
\*   attempt_gc, current_delay_gc   the wrapper of get_collection inside it
\*   acquisitions     get_database calls made by this operation
\*   failed           those of them that raised
\*   sleeps           the delays slept by either wrapper
\*   evaluated        the db property was evaluated in the last step
\*   probe            what its liveness probe gave
\*   factory          what its get_database call gave
\*   db_before        self._db before that evaluation
\*   retry            the evaluation belongs to an attempt made after a sleep
IdleConn ==
    [pc |-> "idle", op |-> "get_collection", db |-> NoRef,
     client |-> NoRef, attempt |-> 0, current_delay |-> 0,
     attempt_gc |-> 0, current_delay_gc |-> 0, error |-> "None",
     acquisitions |-> 0, failed |-> 0, sleeps |-> <<>>, evaluated |-> FALSE,
     probe |-> "none", factory |-> "none", db_before |-> NoRef,
     retry |-> FALSE]

InitConn == cn = IdleConn

ConnEnded == cn.pc \in {"idle", "returned", "raised"}

\* a decorated method is called on an instance that holds a reference or
\* none; the wrapper of a CRUD method calls func, which calls get_collection
ConnCall(op, db) ==
    /\ ConnEnded
    /\ cn' = [IdleConn EXCEPT !.pc = "db", !.op = op, !.db = db,
                              !.client = db,
                              !.current_delay = delay_default,
                              !.current_delay_gc = delay_default]

\* a connection error reaches the wrapper of the called method (L41-55, 60)
outer_except(c, e) ==
    IF will_retry(c.attempt, max_attempts_default)
    THEN [c EXCEPT !.pc = "sleep", !.error = e]
    ELSE [c EXCEPT !.pc = "raised", !.error = e]

\* a connection error reaches the wrapper of get_collection (L41-55, 60);
\* when it gives up inside a CRUD method its error reaches that method's
\* wrapper
gc_except(c, e) ==
    IF will_retry(c.attempt_gc, max_attempts_default)
    THEN [c EXCEPT !.pc = "sleep_gc", !.error = e]
    ELSE IF c.op = "get_collection"
         THEN [c EXCEPT !.pc = "raised", !.error = e]
         ELSE outer_except(c, e)

must_acquire_unset(db, healthy) == db = NoRef

\* if self._db is None or not self._is_connection_healthy()
must_acquire(db, healthy) == db = NoRef \/ ~healthy

\* get_collection: return self.db[collection_name], with the db property
\* (L236-243): probe the held reference, and ask the factory when there is
\* none or the probe failed
ConnDb(healthy, acquired) ==
    /\ cn.pc = "db"
    /\ cn.db = NoRef => healthy
    /\ LET need == must_acquire(cn.db, healthy)
           c == [cn EXCEPT !.evaluated = TRUE,
                           !.db_before = cn.db,
                           !.probe = IF cn.db = NoRef THEN "none"
                                     ELSE IF healthy THEN "ok" ELSE "failed",
                           !.factory = IF ~need THEN "none"
                                       ELSE IF acquired THEN "ok"
                                       ELSE "failed",
                           !.acquisitions = IF need THEN @ + 1 ELSE @,
                           !.failed = IF need /\ ~acquired THEN @ + 1
                                      ELSE @]
           got == [c EXCEPT !.db = IF need THEN c.acquisitions ELSE @,
                            !.client = IF need THEN c.acquisitions ELSE @,
                            !.pc = IF cn.op = "get_collection"
                                   THEN "returned" ELSE "op"]
       IN  /\ ~need => acquired
           /\ cn' = IF need /\ ~acquired
                    THEN gc_except(c, "ConnectionFailure")
                    ELSE got

\* the wrapper of get_collection sleeps, grows its delay and drops _db
ConnSleepGc ==
    /\ cn.pc = "sleep_gc"
    /\ cn' = [cn EXCEPT !.pc = "db",
                        !.sleeps = Append(@, cn.current_delay_gc),
                        !.current_delay_gc = next_delay(@),
                        !.db = invalidate(@),
                        !.attempt_gc = @ + 1,
                        !.evaluated = FALSE, !.retry = TRUE]

\* collection.insert_many(...) and the like on the collection obtained
ConnOp(outcome) ==
    /\ cn.pc = "op"
    /\ cn' = IF outcome = "ok"
             THEN [cn EXCEPT !.pc = "returned", !.evaluated = FALSE]
             ELSE IF is_connection_error(outcome)
             THEN outer_except([cn EXCEPT !.evaluated = FALSE], outcome)
             ELSE [cn EXCEPT !.pc = "raised", !.error = outcome,
                             !.evaluated = FALSE]

\* the wrapper of the CRUD method sleeps, grows its delay, drops _db and
\* calls func again, which calls get_collection anew
ConnSleep ==
    /\ cn.pc = "sleep"
    /\ cn' = [cn EXCEPT !.pc = "db",
                        !.sleeps = Append(@, cn.current_delay),
                        !.current_delay = next_delay(@),
                        !.db = invalidate(@),
                        !.attempt = @ + 1,
                        !.attempt_gc = 0,
                        !.current_delay_gc = delay_default,
                        !.evaluated = FALSE, !.retry = TRUE]

\* operations on one connector instance, one after another
NextConnector ==
    /\ \/ \E op \in Ops, db \in {NoRef, HeldHandle} : ConnCall(op, db)
       \/ \E healthy \in BOOLEAN, acquired \in BOOLEAN :
              ConnDb(healthy, acquired)
       \/ ConnSleepGc
       \/ \E outcome \in Outcomes : ConnOp(outcome)
       \/ ConnSleep
    /\ UNCHANGED <<loadVars, retryVars, factoryVars, backfillVars, closeVars, requestVars, macroVars, portfolioVars, instanceVars, cleanerVars, writeVars>>

(***************************************************************************)
(* MongoDBConnectionFactory.close_cached_client, called by shutdown_event  *)
(* on the event loop while the scheduler thread may be in create_client    *)
(***************************************************************************)

InitClose == cl = "idle"

\* shutdown_event calls close_cached_client()
CloseCall ==
    /\ cl = "idle"
    /\ cl' = "L198"
    /\ UNCHANGED factoryVars

\* if _cached_client is not None
CloseL198 ==
    /\ cl = "L198"
    /\ cl' = IF cached_client # NoClient THEN "L200" ELSE "done"
    /\ UNCHANGED factoryVars

\* _cached_client.close(), the attribute being read again; an error (the
\* attribute is None by now) is logged
CloseL200 ==
    /\ cl = "L200"
    /\ cl' = "L205"
    /\ closed' = IF cached_client # NoClient
                 THEN closed \cup {cached_client} ELSE closed
    /\ UNCHANGED <<cached_client, client_creation_time, lock, now, made, th,
                   nCalls, nPingFails, nTicks>>

\* finally: _cached_client = None
CloseL205 ==
    /\ cl = "L205"
    /\ cl' = "L206"
    /\ cached_client' = NoClient
    /\ UNCHANGED <<client_creation_time, lock, now, made, closed, th, nCalls,
                   nPingFails, nTicks>>

\* _client_creation_time = None
CloseL206 ==
    /\ cl = "L206"
    /\ cl' = "done"
    /\ client_creation_time' = NoTime
    /\ UNCHANGED <<cached_client, lock, now, made, closed, th, nCalls,
                   nPingFails, nTicks>>

close_cached_client ==
    \/ CloseCall
    \/ CloseL198
    \/ CloseL200
    \/ CloseL205
    \/ CloseL206

\* the scheduler thread calling create_client again and again while the
\* shutdown handler closes the cached client
NextFactoryClose ==
    \/ /\ \/ create_client("t1")
          \/ Tick
       /\ UNCHANGED <<loadVars, retryVars, backfillVars, connVars, closeVars, requestVars, macroVars, portfolioVars, instanceVars, cleanerVars, writeVars>>
    \/ /\ close_cached_client
       /\ UNCHANGED <<loadVars, retryVars, backfillVars, connVars, requestVars, macroVars, portfolioVars, instanceVars, cleanerVars, writeVars>>

(***************************************************************************)
(* Ad-hoc load requests: DateRequest.validate_date_str and the checks at   *)
(* the head of LoaderService.load_*                                        *)
(***************************************************************************)

\* the characters a request's date_str is made of here, in code point order
DigitChars == <<"0", "1", "2", "3", "4", "5", "6", "7", "8", "9">>
Digits == {"0", "1", "2"}
Chars == {"-"} \cup Digits

DateStrs == UNION {[1..n -> Chars] : n \in MinDateLen..MaxDateLen}

digit_value(c) == (CHOOSE i \in 1..Len(DigitChars) : DigitChars[i] = c) - 1

\* ord(c): "-" sorts before every digit
ord(c) == IF c = "-" THEN 0 ELSE 1 + digit_value(c)

\* str.isdigit()
isdigit(s) == s # <<>> /\ \A i \in 1..Len(s) : s[i] \in Digits

RECURSIVE int(_)
int(s) == IF s = <<>> THEN 0
          ELSE 10 * int(SubSeq(s, 1, Len(s) - 1)) + digit_value(s[Len(s)])

\* a >= b on str: the first differing character decides, a prefix is smaller
RECURSIVE str_ge(_, _)
str_ge(a, b) ==
    IF b = <<>> THEN TRUE
    ELSE IF a = <<>> THEN FALSE
    ELSE IF a[1] # b[1] THEN ord(a[1]) > ord(b[1])
    ELSE str_ge(Tail(a), Tail(b))

is_leap(y) == (y % 4 = 0 /\ y % 100 # 0) \/ y % 400 = 0

days_in_month(y, m) ==
    IF m = 2 THEN (IF is_leap(y) THEN 29 ELSE 28)
    ELSE IF m \in {4, 6, 9, 11} THEN 30 ELSE 31

ParseError == [y |-> 0, m |-> 0, d |-> 0]

\* the pieces of the pattern of "%Y%m%d":
\*   %m  1[0-2] | 0[1-9] | [1-9]      %d  3[01] | [12]\d | 0[1-9] | [1-9]
match_m(t) ==
    IF Len(t) = 2 THEN int(t) \in 1..12 ELSE t[1] # "0"

match_d(t) ==
    IF Len(t) = 2 THEN int(t) \in 1..31 ELSE t[1] # "0"

\* the field lengths <<%m, %d>> in the order the pattern tries them
FieldLens == <<(<<2, 2>>), (<<2, 1>>), (<<1, 2>>), (<<1, 1>>)>>

\* datetime.strptime(s, "%Y%m%d"): the first way the pattern matches a
\* prefix of s; what is left over, or a date that does not exist, is an error
strptime(s) ==
    LET n == Len(s)
        fits(k) == LET ml == FieldLens[k][1]
                       dl == FieldLens[k][2]
                   IN  /\ 4 + ml + dl <= n
                       /\ isdigit(SubSeq(s, 1, 4 + ml + dl))
                       /\ match_m(SubSeq(s, 5, 4 + ml))
                       /\ match_d(SubSeq(s, 5 + ml, 4 + ml + dl))
        ks == {k \in 1..Len(FieldLens) : fits(k)}
    IN  IF ks = {} THEN ParseError
        ELSE LET k == CHOOSE i \in ks : \A j \in ks : i <= j
                 ml == FieldLens[k][1]
                 dl == FieldLens[k][2]
                 y == int(SubSeq(s, 1, 4))
                 m == int(SubSeq(s, 5, 4 + ml))
                 d == int(SubSeq(s, 5 + ml, 4 + ml + dl))
             IN  IF 4 + ml + dl # n \/ y < 1 \/ d > days_in_month(y, m)
                 THEN ParseError
                 ELSE [y |-> y, m |-> m, d |-> d]

\* zero-padded decimal of width w
RECURSIVE zfill(_, _)
zfill(v, w) == IF w = 0 THEN <<>>
               ELSE Append(zfill(v \div 10, w - 1), DigitChars[(v % 10) + 1])

\* date.strftime("%Y%m%d")
strftime(date) == zfill(date.y, 4) \o zfill(date.m, 2) \o zfill(date.d, 2)

\* the UTC dates the requests arrive on
Todays == {[y |-> 2021, m |-> 1, d |-> 1], [y |-> 2020, m |-> 2, d |-> 12]}

date_str_shape_digits(value) == isdigit(value)

\* if not value.isdigit() or len(value) != 8
date_str_shape(value) == isdigit(value) /\ Len(value) = 8

\* DateRequest.validate_date_str: TRUE when the value is accepted
validate_date_str(value, today) ==
    /\ date_str_shape(value)
    /\ strptime(value) # ParseError
    /\ ~str_ge(value, strftime(today))

IdleRequest ==
    [pc |-> "idle", date_str |-> <<>>, today |-> ParseError, err |-> "None",
     extracted |-> FALSE, stored |-> FALSE]

InitRequest == rq = IdleRequest

\* POST /load-*-data with a body holding date_str
LoadRequest(date_str, today) ==
    /\ rq.pc = "idle"
    /\ rq' = [IdleRequest EXCEPT !.pc = "validate", !.date_str = date_str,
                                 !.today = today]

\* the body is validated before the endpoint function runs
RequestValidate ==
    /\ rq.pc = "validate"
    /\ rq' = IF validate_date_str(rq.date_str, rq.today)
             THEN [rq EXCEPT !.pc = "check"]
             ELSE [rq EXCEPT !.pc = "rejected", !.err = "ValueError"]

\* load_*: if date_str >= current_date: raise ValueError
ServiceCheck ==
    /\ rq.pc = "check"
    /\ rq' = IF str_ge(rq.date_str, strftime(rq.today))
             THEN [rq EXCEPT !.pc = "raised", !.err = "ValueError"]
             ELSE [rq EXCEPT !.pc = "strptime"]

\* load_*: datetime.strptime(date_str, "%Y%m%d")
ServiceParse ==
    /\ rq.pc = "strptime"
    /\ rq' = IF strptime(rq.date_str) = ParseError
             THEN [rq EXCEPT !.pc = "raised", !.err = "ValueError"]
             ELSE [rq EXCEPT !.pc = "extract"]

\* load_*: extractor.extract()
ServiceExtract ==
    /\ rq.pc = "extract"
    /\ rq' = [rq EXCEPT !.pc = "load", !.extracted = TRUE]

\* load_*: loader.load(...)
ServiceLoad ==
    /\ rq.pc = "load"
    /\ rq' = [rq EXCEPT !.pc = "done", !.stored = TRUE]

NextRequest ==
    /\ \/ /\ rq.pc = "idle"
          /\ \E date_str \in DateStrs, today \in Todays :
                 LoadRequest(date_str, today)
       \/ RequestValidate
       \/ ServiceCheck
       \/ ServiceParse
       \/ ServiceExtract
       \/ ServiceLoad
    /\ UNCHANGED <<loadVars, retryVars, factoryVars, backfillVars, connVars,
                   closeVars, macroVars, portfolioVars,
                   instanceVars, cleanerVars,
                   writeVars>>

(***************************************************************************)
(* The macro-indicator loader, pyfredapi_macroindicators_load.py.  A frame *)
(* is what PyFredAPITransform hands over for one series: its series_id     *)
(* column and its observations, one value per date.                        *)
(***************************************************************************)

SeriesIds == {"GDP", "UNRATE"}

\* data.items() yields the series in the order they were extracted
SeriesOrder == <<"GDP", "UNRATE">>

MacroDays == 1..MaxMacroDay

MacroValues == 1..MaxMacroValue

MacroRows == UNION {[D -> MacroValues] : D \in SUBSET MacroDays}

MacroRecords == [series_id : SeriesIds, date : MacroDays, value : MacroValues]

\* where a call on the collection may raise
MacroFaults == {"none", "find_one", "insert_many"}

\* the dicts load() is given: some of the series, each with its frame
MacroData == UNION {[S -> MacroRows] : S \in SUBSET SeriesIds}

\* which call raises for which series during one load
MacroFaultMaps ==
    {f \in [SeriesIds -> MacroFaults] :
        Cardinality({s \in SeriesIds : f[s] # "none"}) <= MaxFaults}

NoCalls == [s \in SeriesIds |-> <<>>]

InitMacro ==
    mc = [collection |-> [r \in MacroRecords |-> 0],
          data       |-> <<>>,
          calls      |-> NoCalls,
          raised     |-> {}]

\* df.to_dict(orient="records")
records(series_id, rows) ==
    {[series_id |-> series_id, date |-> d, value |-> rows[d]] :
        d \in DOMAIN rows}

\* find_one({"series_id": ..., "date": {"$gte": most_recent_date}})
existing_data(collection, series_id, most_recent_date) ==
    \E r \in MacroRecords :
        /\ collection[r] > 0
        /\ r.series_id = series_id
        /\ r.date >= most_recent_date

macro_insert_many(collection, recs) ==
    [r \in MacroRecords |->
        IF r \in recs THEN collection[r] + 1 ELSE collection[r]]

\* insert_macroeconomic_data(df) for the frame of series_id, from the state
\* m of the collection; fault says which call on the collection raises
insert_macroeconomic_data(m, series_id, rows, fault) ==
    IF DOMAIN rows = {}
    THEN m
    ELSE LET most_recent_date == SetMax(DOMAIN rows)
             found == [m EXCEPT !.calls[series_id] = Append(@, "find_one")]
         IN  IF fault = "find_one"
             THEN [found EXCEPT !.raised = @ \cup {series_id}]
             ELSE IF existing_data(m.collection, series_id, most_recent_date)
             THEN found
             ELSE IF fault = "insert_many"
             THEN [found EXCEPT !.calls[series_id] = Append(@, "insert_many"),
                                !.raised = @ \cup {series_id}]
             ELSE [found EXCEPT
                      !.calls[series_id] = Append(@, "insert_many"),
                      !.collection =
                          macro_insert_many(@, records(series_id, rows))]

\* the loop of load(): the series from the i-th on
RECURSIVE load_from(_, _, _, _)
load_from(m, data, faults, i) ==
    IF i > Len(SeriesOrder)
    THEN m
    ELSE LET series_id == SeriesOrder[i]
         IN  IF series_id \notin DOMAIN data
             THEN load_from(m, data, faults, i + 1)
             ELSE IF DOMAIN data[series_id] = {}
             THEN load_from(m, data, faults, i + 1)
             ELSE load_from(insert_macroeconomic_data(m, series_id,
                                data[series_id], faults[series_id]),
                            data, faults, i + 1)

MacroSize(collection) ==
    LET RECURSIVE Sum(_)
        Sum(R) == IF R = {} THEN 0
                  ELSE LET r == CHOOSE x \in R : TRUE
                       IN  collection[r] + Sum(R \ {r})
    IN  Sum(MacroRecords)

\* PyFredAPILoad.load(data)
MacroLoad(data, faults) ==
    /\ mc' = load_from([mc EXCEPT !.data = data, !.calls = NoCalls,
                                  !.raised = {}], data, faults, 1)
    /\ MacroSize(mc'.collection) <= MaxMacroRecords

\* PyFredAPILoad.insert_macroeconomic_data(df), called on its own
MacroInsert(series_id, rows, fault) ==
    /\ mc' = insert_macroeconomic_data(
                 [mc EXCEPT !.data = [s \in {series_id} |-> rows],
                            !.calls = NoCalls, !.raised = {}],
                 series_id, rows, fault)
    /\ MacroSize(mc'.collection) <= MaxMacroRecords

NextMacro ==
    /\ \/ \E data \in MacroData, faults \in MacroFaultMaps :
              MacroLoad(data, faults)
       \/ \E series_id \in SeriesIds, rows \in MacroRows,
             fault \in MacroFaults :
              MacroInsert(series_id, rows, fault)
    /\ UNCHANGED <<loadVars, retryVars, factoryVars, backfillVars, connVars,
                   closeVars, requestVars, portfolioVars,
                   instanceVars, cleanerVars,
                   writeVars>>

(***************************************************************************)
(* The portfolio-performance loader, portfolio_performance_load.py.  A     *)
(* stored document is kept by its date only: the returns it carries are    *)
(* drawn at random and no query of the loader selects on them.  The        *)
(* scheduler thread runs the daily job, the request thread any of the      *)
(* three operations.                                                       *)
(***************************************************************************)

PortfolioDays == 0..MaxPortfolioDay

PortfolioThreads == {"sched", "adhoc"}

IdlePortfolio ==
    [pc |-> "idle", op |-> "none", date |-> NoDate, end_date |-> NoDate,
     status |-> "none", inserted_count |-> 0, skipped_count |-> 0]

InitPortfolio ==
    pf = [collection |-> [d \in PortfolioDays |-> 0],
          today      |-> 1,
          th         |-> [t \in PortfolioThreads |-> IdlePortfolio]]

\* midnight passes
PortfolioTick ==
    /\ pf.today <= MaxPortfolioDay
    /\ pf' = [pf EXCEPT !.today = @ + 1]

\* insert_portfolio_performance_yesterday_data(): yesterday_start
insert_portfolio_performance_yesterday_data(t) ==
    /\ pf.th[t].pc = "idle"
    /\ pf' = [pf EXCEPT !.th[t] = [IdlePortfolio EXCEPT
                  !.pc = "find_one", !.op = "yesterday",
                  !.date = pf.today - 1]]

\* insert_portfolio_performance_data_for_date(target_date_str): strptime
\* either raises ValueError or gives target_date_start
insert_portfolio_performance_data_for_date(t, target_date, parses) ==
    /\ pf.th[t].pc = "idle"
    /\ pf' = [pf EXCEPT !.th[t] =
                  IF parses
                  THEN [IdlePortfolio EXCEPT !.pc = "find_one",
                           !.op = "for_date", !.date = target_date]
                  ELSE [IdlePortfolio EXCEPT !.pc = "done",
                           !.op = "for_date", !.status = "error"]]

\* backfill_portfolio_performance_data(start_date_str, end_date_str) up to
\* the first turn of its loop
backfill_portfolio_performance_data(t, start_date, end_date, parses) ==
    /\ pf.th[t].pc = "idle"
    /\ pf' = [pf EXCEPT !.th[t] =
                  IF ~parses \/ end_date < start_date
                  THEN [IdlePortfolio EXCEPT !.pc = "done",
                           !.op = "backfill", !.status = "error"]
                  ELSE [IdlePortfolio EXCEPT !.pc = "find_one",
                           !.op = "backfill", !.date = start_date,
                           !.end_date = end_date]]

\* what follows the return of the insert for one date: the single-date
\* operations return, the backfill counts and moves to the next day
after_insert(c, status) ==
    IF c.op = "backfill"
    THEN LET counted == [c EXCEPT
                 !.inserted_count = IF status = "inserted" THEN @ + 1 ELSE @,
                 !.skipped_count = IF status = "exists" THEN @ + 1 ELSE @]
         IN  IF c.date + 1 <= c.end_date
             THEN [counted EXCEPT !.pc = "find_one", !.date = @ + 1]
             ELSE [counted EXCEPT !.pc = "done", !.status = "completed"]
    ELSE [c EXCEPT !.pc = "done", !.status = status]

\* collection.find_one({"date": ...}) and the test on what it returned
PortfolioFindOne(t) ==
    /\ pf.th[t].pc = "find_one"
    /\ pf' = [pf EXCEPT !.th[t] =
                  IF pf.collection[pf.th[t].date] > 0
                  THEN after_insert(@, "exists")
                  ELSE [@ EXCEPT !.pc = "insert_one"]]

\* the trend lookup and collection.insert_one(new_data)
PortfolioInsertOne(t) ==
    /\ pf.th[t].pc = "insert_one"
    /\ pf' = [pf EXCEPT !.collection[pf.th[t].date] = @ + 1,
                        !.th[t] = after_insert(@, "inserted")]

\* the call returns to the job or the endpoint
PortfolioReturn(t) ==
    /\ pf.th[t].pc = "done"
    /\ pf' = [pf EXCEPT !.th[t].pc = "idle"]

PortfolioStep(t) ==
    \/ PortfolioFindOne(t)
    \/ PortfolioInsertOne(t)
    \/ PortfolioReturn(t)

NextPortfolio ==
    /\ \/ PortfolioTick
       \/ insert_portfolio_performance_yesterday_data("sched")
       \/ insert_portfolio_performance_yesterday_data("adhoc")
       \/ \E target_date \in PortfolioDays, parses \in BOOLEAN :
              insert_portfolio_performance_data_for_date("adhoc",
                  target_date, parses)
       \/ \E start_date \in PortfolioDays, end_date \in PortfolioDays,
             parses \in BOOLEAN :
              backfill_portfolio_performance_data("adhoc", start_date,
                  end_date, parses)
       \/ PortfolioStep("sched")
       \/ PortfolioStep("adhoc")
    /\ UNCHANGED <<loadVars, retryVars, factoryVars, backfillVars, connVars,
                   closeVars, requestVars, macroVars,
                   instanceVars, cleanerVars,
                   writeVars>>

(***************************************************************************)
(* The life of a connector instance: MongoDBConnector.__init__, the db and *)
(* client properties, and get_collection under its retry wrapper.  A       *)
(* handle is named by the number of the get_database call that gave it.    *)
(***************************************************************************)

Instances == {"i1", "i2"}

\*   constructed   __init__ has run
\*   db, client    self._db, self._client
\*   requests      get_database calls made for the instance
\*   uses          evaluations of the db or client property
\*   attempt       the attempt of get_collection in progress, 0 when none
\*   step          what the instance did last
NoInstance ==
    [constructed |-> FALSE, db |-> NoRef, client |-> NoRef, requests |-> 0,
     uses |-> 0, attempt |-> 0, step |-> "none"]

InitInstance == inst = [i \in Instances |-> NoInstance]

constructed_instance_eager ==
    [NoInstance EXCEPT !.constructed = TRUE, !.db = 1, !.client = 1,
                       !.requests = 1, !.step = "__init__"]

\* __init__: self._db = None; self._client = None
constructed_instance ==
    [NoInstance EXCEPT !.constructed = TRUE, !.step = "__init__"]

ConnectorInit(i) ==
    /\ ~inst[i].constructed
    /\ inst' = [inst EXCEPT ![i] = constructed_instance]

\* _is_connection_healthy(): False without a client, else what the ping gives
is_connection_healthy(c, ping) == c.client # NoRef /\ ping

\* the db property (L236-243): the instance after it, and whether it raised
db_property(c, ping, acquired) ==
    IF must_acquire(c.db, is_connection_healthy(c, ping))
    THEN IF acquired
         THEN [c EXCEPT !.requests = @ + 1, !.db = c.requests + 1,
                        !.client = c.requests + 1]
         ELSE [c EXCEPT !.requests = @ + 1]
    ELSE c

db_raises(c, ping, acquired) ==
    must_acquire(c.db, is_connection_healthy(c, ping)) /\ ~acquired

\* connector.db is read
DbProperty(i, ping, acquired) ==
    /\ inst[i].constructed /\ inst[i].attempt = 0
    /\ inst[i].uses < MaxUses
    /\ inst' = [inst EXCEPT ![i] =
                   [db_property(@, ping, acquired) EXCEPT
                       !.uses = @ + 1, !.step = "db"]]

\* connector.client is read (L250-253): it reads self.db when there is no
\* client or its own ping fails; the db property pings again
ClientProperty(i, ping, ping_db, acquired) ==
    /\ inst[i].constructed /\ inst[i].attempt = 0
    /\ inst[i].uses < MaxUses
    /\ inst' = [inst EXCEPT ![i] =
                   [(IF inst[i].client = NoRef
                        \/ ~is_connection_healthy(inst[i], ping)
                     THEN db_property(@, ping_db, acquired)
                     ELSE @)
                    EXCEPT !.uses = @ + 1, !.step = "client"]]

\* one attempt of a store operation: get_collection reads self.db; when
\* that raises, the wrapper either drops _db and tries again or gives up
GetCollection(i, ping, acquired) ==
    /\ inst[i].constructed
    /\ inst[i].uses < MaxUses
    /\ LET c == [db_property(inst[i], ping, acquired) EXCEPT
                    !.uses = @ + 1, !.step = "get_collection"]
       IN  inst' = [inst EXCEPT ![i] =
                IF ~db_raises(inst[i], ping, acquired)
                THEN [c EXCEPT !.attempt = 0]
                ELSE IF will_retry(inst[i].attempt, max_attempts_default)
                THEN [c EXCEPT !.attempt = @ + 1, !.db = invalidate(@)]
                ELSE [c EXCEPT !.attempt = 0]]

NextInstance ==
    /\ \E i \in Instances :
          \/ ConnectorInit(i)
          \/ \E ping \in BOOLEAN, acquired \in BOOLEAN :
                 DbProperty(i, ping, acquired)
          \/ \E ping \in BOOLEAN, ping_db \in BOOLEAN, acquired \in BOOLEAN :
                 ClientProperty(i, ping, ping_db, acquired)
          \/ \E ping \in BOOLEAN, acquired \in BOOLEAN :
                 GetCollection(i, ping, acquired)
    /\ UNCHANGED <<loadVars, retryVars, factoryVars, backfillVars, connVars,
                   closeVars, requestVars, macroVars, portfolioVars,
                   cleanerVars,
                   writeVars>>

(***************************************************************************)
(* SubredditPrawCleaner.clean_up_data, run by the scheduler's job and by   *)
(* the ad-hoc endpoints.  Documents of an asset are told apart by their    *)
(* age only: old[a] counts those created before the cutoff, newest first,  *)
(* so that the ids find().sort().limit(n) returns are the first n of them; *)
(* recent[a] counts the others.  No document crosses the cutoff between    *)
(* two calls that overlap.                                                 *)
(***************************************************************************)

AssetIds == <<"BTC", "ETH">>

CleanerThreads == {"sched", "adhoc"}

Assets == {AssetIds[i] : i \in 1..Len(AssetIds)}

OldCounts == 0..MaxOldDocs

RecentCounts ==
    (min_documents_per_asset - MaxOldDocs)..(min_documents_per_asset + 1)

Max(a, b) == IF a > b THEN a ELSE b

IdleCleaner ==
    [pc |-> "idle", asset_ids |-> <<>>, i |-> 0, total_docs |-> 0,
     old_docs_count |-> 0, docs_to_preserve |-> 0, preserve_ids |-> 0,
     before |-> <<>>, after |-> <<>>]

InitCleaner ==
    sc = [old |-> [a \in Assets |-> 0], recent |-> [a \in Assets |-> 0],
          null_old |-> 0, filled |-> FALSE,
          th |-> [t \in CleanerThreads |-> IdleCleaner]]

\* the submissions the wrapper's runs have stored by the time of a cleanup
StoreSubmissions(old, recent, null_old) ==
    /\ ~sc.filled
    /\ sc' = [sc EXCEPT !.old = old, !.recent = recent,
                        !.null_old = null_old, !.filled = TRUE]

\* count_documents({"asset_id": asset_id})
count_documents(asset_id) == sc.old[asset_id] + sc.recent[asset_id]

Totals == [a \in Assets |-> count_documents(a)]

docs_to_preserve_none(total_docs, old_docs_count) == 0

\* max(0, self.min_documents_per_asset - (total_docs - old_docs_count))
docs_to_preserve(total_docs, old_docs_count) ==
    Max(0, min_documents_per_asset - (total_docs - old_docs_count))

\* the loop moves to the next asset, or leaves for the last delete
next_asset(c) ==
    IF c.i + 1 <= Len(c.asset_ids)
    THEN [c EXCEPT !.pc = "count_total", !.i = @ + 1]
    ELSE [c EXCEPT !.pc = "null_delete"]

\* clean_up_data(): get_all_asset_ids() and the cutoff
CleanCall(t, asset_ids) ==
    /\ sc.filled
    /\ sc.th[t].pc = "idle"
    /\ sc' = [sc EXCEPT !.th[t] =
                 IF asset_ids = <<>>
                 THEN [IdleCleaner EXCEPT !.pc = "done", !.before = Totals,
                                          !.after = Totals]
                 ELSE [IdleCleaner EXCEPT !.pc = "count_total",
                          !.asset_ids = asset_ids, !.i = 1,
                          !.before = Totals]]

\* total_docs = count_documents(...)
CountTotal(t) ==
    /\ sc.th[t].pc = "count_total"
    /\ sc' = [sc EXCEPT !.th[t].total_docs =
                            count_documents(sc.th[t].asset_ids[sc.th[t].i]),
                        !.th[t].pc = "count_old"]

\* old_docs_count = count_documents(...) and the tests that follow it
CountOld(t) ==
    /\ sc.th[t].pc = "count_old"
    /\ LET c == sc.th[t]
           old_docs_count == sc.old[c.asset_ids[c.i]]
           preserve == docs_to_preserve(c.total_docs, old_docs_count)
           docs_to_delete == old_docs_count - preserve
           d == [c EXCEPT !.old_docs_count = old_docs_count,
                          !.docs_to_preserve = preserve]
       IN  sc' = [sc EXCEPT !.th[t] =
                     IF old_docs_count = 0 \/ docs_to_delete <= 0
                     THEN next_asset(d)
                     ELSE IF preserve > 0
                     THEN [d EXCEPT !.pc = "find"]
                     ELSE [d EXCEPT !.pc = "delete_all"]]

\* find(old).sort("created_at_utc", -1).limit(docs_to_preserve): the ids
\* of the newest old documents there are
CleanFind(t) ==
    /\ sc.th[t].pc = "find"
    /\ LET c == sc.th[t]
       IN  sc' = [sc EXCEPT !.th[t].preserve_ids =
                               Min(c.docs_to_preserve,
                                   sc.old[c.asset_ids[c.i]]),
                            !.th[t].pc = "delete_except"]

\* delete_many(old, "_id": {"$nin": preserve_ids})
CleanDeleteExcept(t) ==
    /\ sc.th[t].pc = "delete_except"
    /\ LET c == sc.th[t]
       IN  sc' = [sc EXCEPT !.old[c.asset_ids[c.i]] = Min(@, c.preserve_ids),
                            !.th[t] = next_asset(c)]

\* delete_many(old)
CleanDeleteAll(t) ==
    /\ sc.th[t].pc = "delete_all"
    /\ LET c == sc.th[t]
       IN  sc' = [sc EXCEPT !.old[c.asset_ids[c.i]] = 0,
                            !.th[t] = next_asset(c)]

\* delete_many(old documents without an asset_id), and the return
CleanNullDelete(t) ==
    /\ sc.th[t].pc = "null_delete"
    /\ sc' = [sc EXCEPT !.null_old = 0,
                        !.th[t].pc = "done",
                        !.th[t].after = Totals]

clean_up_data(t) ==
    \/ \E n \in 0..Len(AssetIds) : CleanCall(t, SubSeq(AssetIds, 1, n))
    \/ CountTotal(t)
    \/ CountOld(t)
    \/ CleanFind(t)
    \/ CleanDeleteExcept(t)
    \/ CleanDeleteAll(t)
    \/ CleanNullDelete(t)

FillSubmissions ==
    \E old \in [Assets -> OldCounts], recent \in [Assets -> RecentCounts],
       null_old \in 0..1 :
        StoreSubmissions(old, recent, null_old)

NextCleaner ==
    /\ \/ FillSubmissions
       \/ \E t \in CleanerThreads : clean_up_data(t)
    /\ UNCHANGED <<loadVars, retryVars, factoryVars, backfillVars, connVars,
                   closeVars, requestVars, macroVars, portfolioVars,
                   instanceVars,
                   writeVars>>

\* one cleanup at a time
NextCleanerSeq ==
    /\ \/ FillSubmissions
       \/ \E t \in CleanerThreads :
             /\ \A u \in CleanerThreads \ {t} :
                    sc.th[u].pc \in {"idle", "done"}
             /\ clean_up_data(t)
    /\ UNCHANGED <<loadVars, retryVars, factoryVars, backfillVars, connVars,
                   closeVars, requestVars, macroVars, portfolioVars,
                   instanceVars,
                   writeVars>>

(***************************************************************************)
(* MongoDBConnector.insert_one / insert_many, each wrapped by               *)
(* retry_on_connection_error(): every attempt hands the caller's own        *)
(* documents to Collection.insert_one / insert_many again.                  *)
(***************************************************************************)
MaxWriteCalls == 2
MaxDocs == 2

\* a document that has no _id
NoId == 0

\* a time-series collection has no unique index on _id; any other has
CollectionKinds == {"regular", "timeseries"}
WriteOps == {"insert_one", "insert_many"}

\* what the driver reports when the server's answer does not arrive
WriteOutcomes == {"ok", "ConnectionFailure", "ServerSelectionTimeoutError"}

\*   op, kind   the method called and the kind of the collection it names
\*   docs       the caller's documents [body, id]; the driver adds the _id
\*   attempt    the wrapper's loop variable
\*   stored     per kind of collection, the bag of documents it holds
\*   next_id    ObjectIds generated so far
\*   calls      calls begun
\*   lost       an attempt of this call reported a connection error although
\*              the server had applied the whole write
\*   err        what the call raised
InitWrite ==
    wr = [pc |-> "idle", op |-> "none", kind |-> "regular", docs |-> <<>>,
          attempt |-> 0, stored |-> [k \in CollectionKinds |-> EmptyBag],
          next_id |-> 0, calls |-> 0, lost |-> FALSE, err |-> "None"]

\* variant: every attempt sends copies of the documents, with new _ids
with_ids_anew(docs, next_id) ==
    [i \in 1..Len(docs) |-> [docs[i] EXCEPT !.id = next_id + i]]

\* Collection.insert_one / insert_many: a document without an _id is given
\* a new ObjectId, in the caller's dict, before it is sent
with_ids(docs, next_id) ==
    [i \in 1..Len(docs) |->
        IF docs[i].id = NoId THEN [docs[i] EXCEPT !.id = next_id + i]
        ELSE docs[i]]

\* the server rejects a document whose _id the collection holds already,
\* where _id is unique
duplicate_key(kind, coll, doc) ==
    /\ kind = "regular"
    /\ \E e \in DOMAIN coll : e.id = doc.id

\* an ordered insert of the first k documents, from the i-th on: it stops at
\* the first document the server rejects
RECURSIVE insert_ordered(_, _, _, _, _)
insert_ordered(kind, coll, docs, i, k) ==
    IF i > k THEN [coll |-> coll, rejected |-> FALSE]
    ELSE IF duplicate_key(kind, coll, docs[i])
    THEN [coll |-> coll, rejected |-> TRUE]
    ELSE insert_ordered(kind, coll (+) SetToBag({docs[i]}), docs, i + 1, k)

\* connector.insert_one(collection_name, document) or
\* connector.insert_many(collection_name, documents) is called
WriteCall(op, kind, n) ==
    /\ wr.pc \in {"idle", "returned", "raised"}
    /\ wr.calls < MaxWriteCalls
    /\ op = "insert_one" => n = 1
    /\ wr' = [wr EXCEPT !.pc = "try", !.op = op, !.kind = kind,
                        !.docs = [i \in 1..n |->
                                     [body |-> wr.calls * MaxDocs + i,
                                      id |-> NoId]],
                        !.attempt = 0, !.calls = @ + 1, !.lost = FALSE,
                        !.err = "None"]

\* one pass of the wrapper's loop: func runs, the server applies the first k
\* documents, and the driver reports net; k < Len(docs) when the connection
\* broke before the server had finished
WriteAttempt(net, k) ==
    /\ wr.pc = "try"
    /\ net = "ok" => k = Len(wr.docs)
    /\ net = "ServerSelectionTimeoutError" => k = 0
    /\ LET docs == with_ids(wr.docs, wr.next_id)
           r == insert_ordered(wr.kind, wr.stored[wr.kind], docs, 1, k)
           e == IF net # "ok" THEN net
                ELSE IF ~r.rejected THEN "ok"
                ELSE IF wr.op = "insert_one" THEN "DuplicateKeyError"
                ELSE "BulkWriteError"
           again == is_connection_error(e)
                        /\ will_retry(wr.attempt, max_attempts_default)
       IN  wr' = [wr EXCEPT
                    !.docs = docs,
                    !.next_id = @ + Len(docs),
                    !.stored[wr.kind] = r.coll,
                    !.lost = @ \/ (is_connection_error(net) /\ ~r.rejected
                                      /\ k = Len(docs)),
                    !.attempt = IF again THEN @ + 1 ELSE @,
                    !.err = IF e = "ok" \/ again THEN "None" ELSE e,
                    !.pc = IF e = "ok" THEN "returned"
                           ELSE IF again THEN "try" ELSE "raised"]

NextWrite ==
    /\ \/ \E op \in WriteOps, kind \in CollectionKinds, n \in 1..MaxDocs :
             WriteCall(op, kind, n)
       \/ \E net \in WriteOutcomes, k \in 0..MaxDocs : k <= Len(wr.docs) /\ WriteAttempt(net, k)
    /\ UNCHANGED <<loadVars, retryVars, factoryVars, backfillVars, connVars,
                   closeVars, requestVars, macroVars, portfolioVars,
                   instanceVars, cleanerVars>>

Init ==
    /\ InitLoad /\ InitRetry /\ InitFactory /\ InitBackfill /\ InitConn
    /\ InitClose /\ InitRequest /\ InitMacro /\ InitPortfolio
    /\ InitInstance /\ InitCleaner /\ InitWrite

SpecCleaner == Init /\ [][NextCleaner]_vars

SpecWrite == Init /\ [][NextWrite]_vars

SpecCleanerSeq == Init /\ [][NextCleanerSeq]_vars

SpecInstance == Init /\ [][NextInstance]_vars

SpecPortfolio == Init /\ [][NextPortfolio]_vars

SpecMacro == Init /\ [][NextMacro]_vars

SpecRequest == Init /\ [][NextRequest]_vars

SpecFactoryClose == Init /\ [][NextFactoryClose]_vars

SpecConnector == Init /\ [][NextConnector]_vars

SpecBackfill == Init /\ [][NextBackfill]_vars

\* the running thread is scheduled until its call ends
SpecEstablish ==
    Init /\ [][NextEstablish]_vars /\ WF_vars(EstablishRun)

SpecFactory == Init /\ [][NextFactory]_vars

SpecFactorySeq == Init /\ [][NextFactorySeq]_vars

\* a thread inside create_client takes its next step
Running(t) ==
    /\ th[t].pc \notin {"idle", "returned", "raised"}
    /\ create_client(t)
    /\ UNCHANGED <<loadVars, retryVars, backfillVars, connVars, closeVars, requestVars, macroVars, portfolioVars, instanceVars, cleanerVars, writeVars>>

\* each thread calls create_client once, at any moment
NextFactoryLive ==
    \/ /\ \E t \in Threads :
             /\ th[t].pc = "idle"
             /\ \E m \in RetryTimes : Call(t, m)
       /\ UNCHANGED <<loadVars, retryVars, backfillVars, connVars, closeVars, requestVars, macroVars, portfolioVars, instanceVars, cleanerVars, writeVars>>
    \/ \E t \in Threads : Running(t)
    \/ /\ Tick
       /\ UNCHANGED <<loadVars, retryVars, backfillVars, connVars, closeVars, requestVars, macroVars, portfolioVars, instanceVars, cleanerVars, writeVars>>

\* every thread inside create_client is scheduled again and again; a thread
\* waiting for the lock can run when the lock is free
SpecFactoryLive ==
    Init /\ [][NextFactoryLive]_vars /\ \A t \in Threads : WF_vars(Running(t))

SpecRetry == Init /\ [][NextRetry]_vars

\* one caller at a time, any batch
NextLoad ==
    /\ \/ LoadStep("sched", Batches)
       \/ Backup
    /\ UNCHANGED <<retryVars, factoryVars, backfillVars, connVars, closeVars, requestVars, macroVars, portfolioVars, instanceVars, cleanerVars, writeVars>>

Spec == Init /\ [][NextLoad]_vars

\* run_binance_api_crypto_data_etl / run_yfinance_market_data_etl: extract
\* the configured tickers for start_date, transform, and hand the dict to
\* load(); with nothing to load the call ends at once
EtlBegin(t, fetched, start_date) ==
    /\ ld[t].pc \in {"idle", "done", "raised"}
    /\ nLoads < MaxLoads
    /\ nItems + Cardinality(DOMAIN fetched) <= MaxItems
    /\ nLoads' = nLoads + 1
    /\ nItems' = nItems + Cardinality(DOMAIN fetched)
    /\ LET data == extract_tickers(fetched)
       IN  ld' = [ld EXCEPT ![t] =
                [IdleLoad EXCEPT !.pc = "loop", !.target = start_date,
                                 !.keys = DOMAIN data, !.allkeys = DOMAIN data,
                                 !.etl = TRUE, !.data = data,
                                 !.nodata = DOMAIN fetched \ DOMAIN data]]
    /\ UNCHANGED <<store, backup, nBackups, nFaults, wide>>

\* the extraction of every configured ticker for start_date
Fetches(start_date) ==
    [Keys -> {S \in OneDayBatches : \A ts \in S : date_of(ts) = start_date}]

\* the scheduled job and direct calls of load(), one at a time
NextEtl ==
    /\ \/ \E d \in Days : \E fetched \in Fetches(d) : EtlBegin("sched", fetched, d)
       \/ LoadStep("sched", Batches)
       \/ Backup
    /\ UNCHANGED <<retryVars, factoryVars, backfillVars, connVars, closeVars, requestVars, macroVars, portfolioVars, instanceVars, cleanerVars, writeVars>>

SpecEtl == Init /\ [][NextEtl]_vars

\* the scheduler thread and a request handler in load() at the same time,
\* each with the batch of one day
NextLoadConc ==
    /\ \E t \in LoadThreads : LoadStep(t, OneDayBatches)
    /\ UNCHANGED <<retryVars, factoryVars, backfillVars, connVars, closeVars, requestVars, macroVars, portfolioVars, instanceVars, cleanerVars, writeVars>>

SpecLoadConc == Init /\ [][NextLoadConc]_vars

\* the collection as earlier loads have left it before the calls under
\* study: at most one document per (symbol, timestamp)
StoredDocs == [symbol : StoredSymbols, ts : Timestamps]

StoreHolds(docs) ==
    /\ nLoads = 0
    /\ nBackups = 0
    /\ store = EmptyBag
    /\ docs # {}
    /\ store' = [d \in docs |-> 1]
    /\ UNCHANGED <<backup, ld, nLoads, nItems, nBackups, nFaults, wide>>

\* load() called with empty batches only, one caller at a time, on a
\* collection that holds documents already
NextRecover ==
    /\ \/ \E docs \in SUBSET StoredDocs : StoreHolds(docs)
       \/ LoadStep("sched", {{}})
       \/ Backup
    /\ UNCHANGED <<retryVars, factoryVars, backfillVars, connVars, closeVars, requestVars, macroVars, portfolioVars, instanceVars, cleanerVars, writeVars>>

SpecRecover == Init /\ [][NextRecover]_vars

(***************************************************************************)
(* Properties of the loader.                                               *)
(***************************************************************************)
\* the documents of one symbol, as a bag
SymRecords(coll, symbol) ==
    [d \in {e \in DOMAIN coll : e.symbol = symbol} |-> coll[d]]

\* the call of t returned, it repeated the previous call (same single key,
\* same non-empty batch, same start_date) and no store operation failed
Repeated(t) ==
    /\ ld[t].pc = "done"
    /\ ld[t].prev # <<>>
    /\ ld[t].batch # {}
    /\ ld[t].bad = {}

\* C1 as stated: a second load of the same non-empty batch for the same
\* start_date leaves the records of the symbol as the first load left them,
\* for every batch
C1_IdempotentAnyBatch ==
    \A t \in LoadThreads :
        Repeated(t) =>
            SymRecords(store, normalize_symbol(ld[t].key))
                = SymRecords(ld[t].snap, normalize_symbol(ld[t].key))

\* C1 amended: a second load of the same non-empty batch for the same
\* start_date leaves the records of the symbol as the first load left them,
\* when all the rows of the batch fall on one UTC day
C1_IdempotentOneDay ==
    \A t \in LoadThreads :
        (Repeated(t) /\ ld[t].batch \in OneDayBatches) =>
            SymRecords(store, normalize_symbol(ld[t].key))
                = SymRecords(ld[t].snap, normalize_symbol(ld[t].key))

C1_Witness ==
    \E t \in LoadThreads :
        /\ Repeated(t)
        /\ ld[t].batch \in OneDayBatches
        /\ Cardinality(ld[t].batch) = MaxBatch
        /\ SymRecords(store, normalize_symbol(ld[t].key)) # EmptyBag

Unique(coll) == \A d \in DOMAIN coll : coll[d] <= 1

C8_RecoveryOrder ==
    \A t \in LoadThreads : ld[t].q2 => ld[t].q1 = "empty"

C8_Witness ==
    \E t \in LoadThreads :
        ld[t].pc = "done" /\ ld[t].q1 = "found" /\ ~ld[t].q2 /\ ld[t].ok # {}

\* C9: every row a recovery returned has the date start_date and the time of
\* day and the tzinfo of the row it was rewritten from
C9_DateRewrite ==
    \A t \in LoadThreads :
        (ld[t].pc = "delete" /\ ld[t].src.rows # <<>>) =>
            /\ Len(ld[t].df.rows) = Len(ld[t].src.rows)
            /\ ld[t].df.tz = ld[t].src.tz
            /\ \A i \in 1..Len(ld[t].src.rows) :
                  /\ date_of(ld[t].df.rows[i].ts) = ld[t].target
                  /\ time_of(ld[t].df.rows[i].ts) = time_of(ld[t].src.rows[i].ts)
                  /\ ld[t].df.rows[i].symbol = ld[t].src.rows[i].symbol

C9_Witness ==
    \E t \in LoadThreads :
        /\ ld[t].pc = "delete"
        /\ Len(ld[t].src.rows) = MaxBatch
        /\ date_of(ld[t].src.rows[1].ts) # ld[t].target
        /\ \E i \in 1..Len(ld[t].src.rows) : time_of(ld[t].src.rows[i].ts) # 0

\* C10: when load() has ended and the only errors were failed deletes or
\* inserts, every symbol of data was processed and the rows of every
\* symbol whose own delete and insert did not fail are in the collection
C10_Isolation ==
    \A t \in LoadThreads :
        (Ended(t) /\ ld[t].q1 # "error" /\ ~ld[t].q2err) =>
            /\ ld[t].allkeys = {e.key : e \in ld[t].ok} \cup ld[t].bad \cup ld[t].skipped
            /\ \A e \in ld[t].ok :
                  \A i \in 1..Len(e.rows) : BagIn(e.rows[i], store)

C10_Witness ==
    \E t \in LoadThreads :
        /\ Ended(t)
        /\ ld[t].bad # {}
        /\ ld[t].key \notin ld[t].bad
        /\ \E e \in ld[t].ok : e.key = ld[t].key /\ BagIn(e.rows[1], store)

\* the step of t in which both recoveries of the current symbol have come
\* back empty
Exhausts(t) ==
    /\ ld[t].pc = "tier2"
    /\ ld'[t].q2
    /\ ~ld'[t].q2err
    /\ df_empty(ld'[t].df)

\* C11: the step in which the second recovery of a symbol comes back empty
\* leaves the collection as it is, marks the symbol skipped and goes back to
\* the loop over the remaining symbols, and load() does not raise
C11_RecoveryExhaustion ==
    [][\A t \in LoadThreads :
          Exhausts(t) =>
              /\ store' = store
              /\ ld'[t].pc = "loop"
              /\ ld'[t].skipped = ld[t].skipped \cup {ld[t].key}
              /\ ld'[t].keys = ld[t].keys \ {ld[t].key}
              /\ ld'[t].ok = ld[t].ok]_vars

\* load() returned after it had skipped a symbol with nothing to recover and
\* inserted the rows of another
C11_Witness ==
    \E t \in LoadThreads :
        /\ ld[t].pc = "done"
        /\ ld[t].skipped # {}
        /\ ld[t].key \notin ld[t].skipped
        /\ \E e \in ld[t].ok : e.key = ld[t].key /\ BagIn(e.rows[1], store)

\* both threads have returned from load({key: batch}, start_date) with the
\* same key, the same non-empty batch and the same start_date, no store
\* operation failed, and these were the only calls
SameLoadTwice ==
    LET a == ld["sched"]
        b == ld["adhoc"]
    IN  /\ nLoads = 2
        /\ Summary(a) # <<>>
        /\ Summary(b) = Summary(a)

\* C12: after two concurrent loads of the same batch for the same symbol
\* and start_date the collection holds every row of the batch once, as after
\* one load
C12_ConcurrentLoads ==
    SameLoadTwice =>
        /\ Unique(store)
        /\ store = SeqToBag(transform(ld["sched"].key, ld["sched"].batch).rows)

\* the step of t is a delete that succeeded, and it removed the documents
\* of the current symbol dated day, all of them and no other document
DeletesDay(t, day) ==
    (ld[t].pc = "delete" /\ ld'[t].pc = "insert") =>
        store' = [d \in {e \in DOMAIN store :
                            ~(/\ e.symbol = normalize_symbol(ld[t].key)
                              /\ date_of(e.ts) = day)} |-> store[d]]

\* C13 as stated: before the insert, load() deletes the documents of the
\* symbol dated start_date, and nothing else
C13_DeleteTargetDay ==
    [][\A t \in LoadThreads : DeletesDay(t, ld[t].target)]_vars

\* C13 amended: before the insert, load() deletes the documents of the
\* symbol dated as the first row of the batch is, and nothing else; that
\* is start_date when the rows were recovered
C13_DeleteFirstRowDay ==
    [][\A t \in LoadThreads :
          /\ DeletesDay(t, date_of(ld[t].df.rows[1].ts))
          /\ (ld[t].pc = "delete" /\ ld[t].src.rows # <<>>) =>
                 date_of(ld[t].df.rows[1].ts) = ld[t].target]_vars

\* a delete has removed the rows an earlier load left on the first row's
\* day and has kept a row of the symbol on another day
C13_Witness ==
    \E t \in LoadThreads :
        /\ ld[t].pc = "insert"
        /\ ld[t].prev # <<>>
        /\ ld[t].snap # store
        /\ \E d \in DOMAIN store :
               /\ d.symbol = normalize_symbol(ld[t].key)
               /\ date_of(d.ts) # date_of(ld[t].df.rows[1].ts)

\* C14: when a scheduled job has ended, the recovery of every configured
\* ticker whose extraction returned no data was begun during the job
C14_RecoveryInvoked ==
    \A t \in LoadThreads :
        (ld[t].pc = "done" /\ ld[t].etl) => ld[t].nodata \subseteq ld[t].tried

\* the snapshot file of that name exists and holds rows
HasRows(name) == backup[name] # <<>> /\ backup[name][1] # <<>>

\* C15: the recovery of a symbol looks where the transform and the backup
\* utility put the instrument's records: when the tier-1 query of a symbol
\* has come back empty the collection holds no document under the symbol's
\* normalized key, and when its snapshot has come back empty too there is
\* no snapshot with rows under the normalized key
C15_NormalizedLookups ==
    \A t \in LoadThreads :
        /\ ld[t].pc = "tier2" =>
               SymRecords(store, normalize_symbol(ld[t].key)) = EmptyBag
        /\ (ld[t].pc = "loop" /\ ld[t].q2 /\ ld[t].key \in ld[t].skipped) =>
               ~HasRows(normalize_symbol(ld[t].key))

\* C16: a symbol is given up because of a failed delete or insert only
\* after the failed operation was invoked max_attempts times
C16_RetriedBeforeGivenUp ==
    \A t \in LoadThreads :
        ld[t].key \in ld[t].bad =>
            \/ ld[t].dcalls = max_attempts_default
            \/ ld[t].icalls = max_attempts_default

\* C17: when no connection could be established for a store operation of
\* load(), load() has raised
C17_SystemicPropagates ==
    \A t \in LoadThreads : ld[t].unavail => ld[t].pc = "raised"

\* a recovery step of the current symbol of t raised for a reason of that
\* symbol alone: its snapshot file could not be read or parsed, or its
\* tier-1 query failed on a connection that was there
LocalRecoveryError(t) ==
    \/ ld[t].q2err
    \/ ld[t].q1 = "error" /\ ~ld[t].unavail

\* C18: after a recovery step of a symbol raised for a reason local to the
\* symbol, load() has not raised: the symbol is skipped
C18_LocalRecoveryErrorSkipped ==
    \A t \in LoadThreads :
        LocalRecoveryError(t) =>
            /\ ld[t].pc # "raised"
            /\ ld[t].key \in ld[t].skipped

(***************************************************************************)
(* Properties of the retry wrapper.                                        *)
(***************************************************************************)
AllTransient(fs) == \A i \in 1..Len(fs) : is_connection_error(fs[i])

\* C3: when func raised a connection error at every invocation, the wrapper
\* has ended only after exactly max_attempts invocations, and it ended by
\* raising the last connection error
C3_RetryBound ==
    /\ (rt.pc \in {"returned", "raised"} /\ AllTransient(rt.failures)
            /\ Len(rt.failures) = rt.calls)
          => /\ rt.calls = rt.max_attempts
             /\ rt.pc = "raised"
             /\ rt.error = rt.failures[rt.calls]
             /\ is_connection_error(rt.error)
    /\ rt.calls <= rt.max_attempts

C3_Witness ==
    /\ rt.pc = "raised"
    /\ rt.max_attempts = max_attempts_default
    /\ rt.calls = max_attempts_default
    /\ AllTransient(rt.failures)

\* C4: when an invocation of func raises another error than a connection
\* error, the wrapper raises that error at once: no invocation, no sleep and
\* no invalidation of _db follows it, and if it was the first invocation
\* func ran once, nothing was slept and _db is untouched
C4_NoRetryOther ==
    (rt.failures # <<>> /\ rt.failures[Len(rt.failures)] = "OperationFailure")
        => /\ rt.pc = "raised"
           /\ rt.error = rt.failures[Len(rt.failures)]
           /\ rt.calls = Len(rt.failures)
           /\ Len(rt.sleeps) = rt.calls - 1
           /\ (rt.calls = 1 => rt.sleeps = <<>> /\ rt.db = rt.db0)

C4_Witness ==
    /\ rt.pc = "raised"
    /\ rt.error = "OperationFailure"
    /\ rt.calls = 1
    /\ rt.max_attempts = max_attempts_default
    /\ rt.db0 = Handle
    /\ rt.has_db

\* C21: when func failed with a connection error at every invocation, the
\* wrapper has slept exactly max_attempts - 1 times, the k-th sleep lasted
\* delay * backoff^(k-1), the delays strictly increase, and the wrapper
\* raised straight after the last failure, without a sleep
C21_BackoffSchedule ==
    /\ \A k \in 1..Len(rt.sleeps) :
          /\ rt.sleeps[k] = delay_default * backoff_default ^ (k - 1)
          /\ k > 1 => rt.sleeps[k] > rt.sleeps[k - 1]
    /\ (rt.pc = "raised" /\ AllTransient(rt.failures))
          => /\ Len(rt.sleeps) = rt.max_attempts - 1
             /\ Len(rt.sleeps) = Len(rt.failures) - 1

C21_Witness ==
    /\ rt.pc = "raised"
    /\ AllTransient(rt.failures)
    /\ rt.max_attempts = max_attempts_default
    /\ rt.sleeps = <<1, 2>>

(***************************************************************************)
(* Properties of MongoDBConnectionFactory.create_client.                   *)
(***************************************************************************)
\* the steps made while holding the lock
LockedPcs == {"L107", "L108", "L111", "L112", "L117", "L119", "L122", "L128",
              "L132", "L134", "L153", "L154", "L156", "L159", "L172"}

\* new-handle establishment: create, probe, cache
EstablishPcs == {"L128", "L132", "L134", "L153", "L154", "L156", "L159",
                 "L172"}

\* nothing but first use has happened: no probe failed, no lifetime passed
FirstUse == nPingFails = 0 /\ nTicks = 0

\* C5: on concurrent first use every create_client call that fails, fails
\* with ConnectionFailure, and a thread that has seen a cached client on the
\* unlocked fast path finds its creation time set
C5_FirstUseSafe ==
    FirstUse =>
        \A t \in Threads :
            /\ th[t].pc = "raised" => th[t].err = "ConnectionFailure"
            /\ th[t].pc = "L94" => client_creation_time # NoTime

\* C6: at most one thread is between taking and releasing the lock, so at
\* most one establishes a client; and on first use with every probe
\* succeeding one client is constructed, however many threads call
C6_SingleFlight ==
    /\ Cardinality({t \in Threads : th[t].pc \in LockedPcs}) <= 1
    /\ \A t \in Threads : th[t].pc \in LockedPcs => lock = t
    /\ FirstUse =>
          /\ made <= 1
          /\ \A t \in Threads : th[t].pc = "returned" =>
                 made = 1 /\ th[t].ret = 1

C6_Witness ==
    /\ FirstUse
    /\ nCalls = 2
    /\ \A t \in Threads : th[t].pc = "returned" /\ th[t].slow
    /\ made = 1

\* C7: a call that found the cached client younger than its lifetime and
\* whose probe of it succeeded returns that client, the one the call before
\* returned, and constructs none; a call whose probe of the cached client
\* failed and whose establishment probe succeeded returns a client it
\* constructed, another one than the client probed, and leaves it cached
\* with its creation time; such a call ends otherwise only in
\* ConnectionFailure after a failed establishment or an exhausted budget
C7_HandleCaching ==
    LET c == th["t1"] IN
    /\ (c.pc = "returned" /\ c.probe = "ok") =>
          /\ c.ret = c.probed
          /\ cached_client = c.ret
          /\ made = c.made0
          /\ c.prev_ret # NoClient => c.ret = c.prev_ret
    /\ (c.pc \in {"L99", "L112"} /\ c.probe = "ok") => c.attempts = 0
    /\ (c.pc = "returned" /\ c.probe = "failed") =>
          /\ c.ret > c.made0
          /\ c.ret = made
          /\ c.ret # c.probed
          /\ c.probed \in closed
          /\ cached_client = c.ret
          /\ client_creation_time # NoTime
          /\ now - client_creation_time < client_lifetime \/ nTicks > 0
    /\ (c.pc = "raised" /\ c.probe = "failed") =>
          /\ c.err = "ConnectionFailure"
          /\ c.estab_fail > 0 \/ c.attempts = 0
          /\ cached_client = NoClient
    /\ (c.pc \in {"returned", "raised"} /\ c.probe = "failed"
            /\ c.attempts > 0 /\ c.estab_fail = 0) => c.pc = "returned"

\* a call returned the client of the call before it, and the next call,
\* whose probe of that client failed, returned a new client
C7_Witness ==
    LET c == th["t1"] IN
    /\ c.pc = "returned" /\ c.probe = "failed"
    /\ c.prev_probe = "ok"
    /\ c.prev_ret # NoClient /\ c.ret # c.prev_ret
    /\ cached_client = c.ret

(***************************************************************************)
(* Backfill properties                                                     *)
(***************************************************************************)

\* C19: when the per-date load of some date of the range raised, the
\* backfill call still returns normally and has performed the per-date load
\* for every date of the range
C19_BackfillContinues ==
    (BackfillEnded /\ bf.failed # {}) =>
        /\ bf.pc = "returned"
        /\ bf.called = bf.start_date..bf.end_date

\* a call that made establishment attempts, all of which failed
AllAttemptsFailed(t) ==
    th[t].attempts > 0 /\ th[t].estab_fail = th[t].attempts

\* the call raised ConnectionFailure with the error of its last attempt
RaisedUnavailable(t) ==
    /\ th[t].pc = "raised"
    /\ th[t].err = "ConnectionFailure"
    /\ th[t].msg_error # NoClient
    /\ th[t].msg_error = th[t].client

\* the except branch after the k-th failed attempt sleeps min(30, 2^k)
\* seconds or not at all, and sleeps only if elapsed + wait < M
BackoffStep(t) ==
    th[t].pc = "L159" /\ th'[t].pc # "L159" =>
        LET k == th[t].estab_fail
            wait == Min(max_wait, 2 ^ k)
            elapsed == now - th[t].start_time
        IN  /\ th'[t].attempt = k
            /\ now' \in {now, now + wait}
            /\ now' # now => elapsed + wait < th[t].max_retry_time

\* an attempt starts only while elapsed < M
AttemptStep(t) ==
    th[t].pc = "L134" /\ th'[t].attempts = th[t].attempts + 1 =>
        now - th[t].start_time < th[t].max_retry_time

\* C20: with every probe failing create_client(M) ends by raising
\* ConnectionFailure that carries the last underlying error; the wait after
\* the k-th failed attempt is min(30, 2^k), taken only if elapsed + wait < M;
\* no attempt starts once elapsed >= M; and a call that starts establishing
\* always ends
C20_BoundedEstablishment ==
    /\ [](\A t \in Threads :
            (CallEnded(t) /\ AllAttemptsFailed(t)) => RaisedUnavailable(t))
    /\ [][\A t \in Threads : BackoffStep(t) /\ AttemptStep(t)]_vars
    /\ \A t \in Threads : (th[t].pc = "L128") ~> CallEnded(t)

\* a call with the default budget raised after the capped wait was taken
C20_Witness ==
    /\ th["t1"].pc = "raised"
    /\ AllAttemptsFailed("t1")
    /\ th["t1"].max_retry_time = create_client_max_retry_time
    /\ 2 ^ (th["t1"].attempt - 1) > max_wait

(***************************************************************************)
(* Properties of MongoDBConnector                                          *)
(***************************************************************************)

\* C22: an attempt made after a retried connection error starts with _db
\* cleared, and the handle it uses comes from a get_database call of that
\* attempt, never from the reference the failed attempt held
C22_InvalidatedBetweenAttempts ==
    /\ (cn.pc = "db" /\ cn.retry) => cn.db = NoRef
    /\ (cn.evaluated /\ cn.retry) =>
          /\ cn.factory # "none"
          /\ cn.db_before = NoRef
          /\ cn.factory = "ok" => cn.db = cn.acquisitions

C22_Witness ==
    /\ cn.evaluated
    /\ cn.retry
    /\ cn.op = "insert_many"
    /\ cn.attempt = 1
    /\ cn.factory = "ok"
    /\ cn.pc = "op"

\* C23: a CRUD operation whose handle acquisitions all failed raises after
\* exactly max_attempts acquisitions and max_attempts - 1 sleeps
C23_AcquisitionAttempts ==
    (cn.pc = "raised" /\ cn.op # "get_collection"
        /\ cn.failed > 0 /\ cn.failed = cn.acquisitions) =>
        /\ cn.acquisitions = max_attempts_default
        /\ Len(cn.sleeps) = max_attempts_default - 1

\* C30: when the liveness probe of the reference the instance holds fails,
\* the db property asks the factory; with a handle from the factory the
\* operation goes on, on that handle, and the attempt fails only when the
\* factory raised
C30_HealthAwareReuse ==
    (cn.evaluated /\ cn.probe = "failed") =>
        /\ cn.factory # "none"
        /\ cn.factory = "ok" =>
              /\ cn.pc \in {"op", "returned"}
              /\ cn.db = cn.acquisitions
              /\ cn.db # cn.db_before
        /\ cn.pc \notin {"op", "returned"} => cn.factory = "failed"

C30_Witness ==
    /\ cn.evaluated
    /\ cn.probe = "failed"
    /\ cn.db_before = HeldHandle
    /\ cn.factory = "ok"
    /\ cn.pc = "op"
    /\ cn.db = 1

(***************************************************************************)
(* create_client and close_cached_client under concurrency                 *)
(***************************************************************************)

\* thread t leaves create_client with a return value in this step
Returns(t) == th[t].pc # "returned" /\ th'[t].pc = "returned"

\* C24: whatever the interleaving of concurrent create_client calls, a call
\* that returns hands out a client, and one close() has not been called on
C24_ReturnsOpenClient ==
    [][\A t \in Threads :
          Returns(t) => /\ th'[t].ret # NoClient
                        /\ th'[t].ret \notin closed']_vars

\* nobody is inside create_client or close_cached_client
Quiescent == cl \in {"idle", "done"} /\ \A t \in Threads : CallEnded(t)

\* C25: however close_cached_client interleaves with create_client calls,
\* once the calls have ended a cached client has a creation time and is not
\* a closed one, and a create_client call that failed, failed with
\* ConnectionFailure
C25_CloseThreadSafe ==
    /\ (Quiescent /\ cached_client # NoClient) =>
          /\ client_creation_time # NoTime
          /\ cached_client \notin closed
    /\ \A t \in Threads : th[t].pc = "raised" => th[t].err = "ConnectionFailure"

(***************************************************************************)
(* Properties of the ad-hoc load requests                                  *)
(***************************************************************************)

\* date_str is eight digits YYYYMMDD naming a day of the calendar
WellFormed(s) ==
    /\ Len(s) = 8
    /\ \A i \in 1..8 : s[i] \in Digits
    /\ int(SubSeq(s, 1, 4)) >= 1
    /\ int(SubSeq(s, 5, 6)) \in 1..12
    /\ int(SubSeq(s, 7, 8)) \in
          1..days_in_month(int(SubSeq(s, 1, 4)), int(SubSeq(s, 5, 6)))

\* the day date_str names lies before the day today
Past(s, today) ==
    LET y == int(SubSeq(s, 1, 4))
        m == int(SubSeq(s, 5, 6))
        d == int(SubSeq(s, 7, 8))
    IN  \/ y < today.y
        \/ y = today.y /\ m < today.m
        \/ y = today.y /\ m = today.m /\ d < today.d

Acceptable(s, today) == WellFormed(s) /\ Past(s, today)

\* C26: a request whose date is malformed, today or in the future is
\* rejected with a ValueError, and neither extraction nor the store is
\* reached for it
C26_DateRejectedEarly ==
    (rq.pc # "idle" /\ ~Acceptable(rq.date_str, rq.today)) =>
        /\ rq.pc \in {"validate", "rejected", "raised"}
        /\ ~rq.extracted /\ ~rq.stored
        /\ rq.pc \in {"rejected", "raised"} => rq.err = "ValueError"

\* today's date was asked for and refused
C26_Witness ==
    /\ rq.pc = "rejected"
    /\ WellFormed(rq.date_str)
    /\ rq.date_str = strftime(rq.today)


(***************************************************************************)
(* Properties of the macro-indicator loader                                *)
(***************************************************************************)

\* the records stored for one observation of one series
Copies(series_id, date) ==
    LET RECURSIVE Sum(_)
        Sum(V) == IF V = {} THEN 0
                  ELSE LET v == CHOOSE x \in V : TRUE
                       IN  mc.collection[[series_id |-> series_id,
                                          date |-> date, value |-> v]]
                           + Sum(V \ {v})
    IN  Sum(MacroValues)

\* C27: whatever load and insert_macroeconomic_data calls have been made,
\* the collection holds at most one record per (series_id, date)
C27_OneRecordPerObservation ==
    \A series_id \in SeriesIds, date \in MacroDays :
        Copies(series_id, date) <= 1

\* the frame the last load was given for series_id, <<>> when it had none
Frame(series_id) ==
    IF series_id \in DOMAIN mc.data THEN mc.data[series_id] ELSE <<>>

\* C28: after a load, a series that came with observations and whose calls
\* did not raise holds exactly those observations for their dates, put there
\* by a delete followed by an insert; a series that came with none was
\* looked up in the recovery chain before it was skipped
C28_RecoveryLoaderProtocol ==
    \A series_id \in DOMAIN mc.data :
        /\ (DOMAIN Frame(series_id) # {} /\ series_id \notin mc.raised) =>
              /\ mc.calls[series_id] = <<"delete_many", "insert_many">>
              /\ \A r \in MacroRecords :
                    (r.series_id = series_id /\ r.date \in DOMAIN Frame(series_id))
                        => mc.collection[r] =
                              (IF r \in records(series_id, Frame(series_id))
                               THEN 1 ELSE 0)
        /\ DOMAIN Frame(series_id) = {} => mc.calls[series_id] # <<>>


(***************************************************************************)
(* Properties of the portfolio-performance loader                          *)
(***************************************************************************)

\* C29: however the scheduler's daily job and the ad-hoc single-date and
\* backfill operations interleave, the collection holds at most one record
\* per date
C29_OneRecordPerDate ==
    \A d \in PortfolioDays : pf.collection[d] <= 1


(***************************************************************************)
(* Properties of the life of a connector instance                          *)
(***************************************************************************)

\* C31: __init__ requests no handle: an instance whose db and client
\* properties were never evaluated has had no get_database call made for it
\* and holds no reference, and the count of its requests only grows in a
\* step that evaluates one of the properties
C31_LazyAcquisition ==
    /\ [](\A i \in Instances :
             inst[i].uses = 0 =>
                 /\ inst[i].requests = 0
                 /\ inst[i].db = NoRef /\ inst[i].client = NoRef)
    /\ [][\A i \in Instances :
             inst'[i].requests # inst[i].requests =>
                 /\ inst[i].constructed
                 /\ inst'[i].uses = inst[i].uses + 1
                 /\ inst'[i].step \in {"db", "client", "get_collection"}]_vars

\* an instance was constructed and nothing requested, and another made its
\* first request at its first operation
C31_Witness ==
    /\ inst["i1"].constructed /\ inst["i1"].uses = 0
    /\ inst["i1"].requests = 0
    /\ inst["i2"].uses = 1 /\ inst["i2"].requests = 1
    /\ inst["i2"].step = "get_collection"


(***************************************************************************)
(* Properties of the submissions cleaner                                   *)
(***************************************************************************)

\* C32: when a clean_up_data call has ended, every asset has at least
\* min(40, the documents it had when the call began) documents left
C32_MinimumPreserved ==
    \A t \in CleanerThreads :
        sc.th[t].pc = "done" =>
            \A a \in Assets :
                sc.th[t].after[a] >=
                    Min(min_documents_per_asset, sc.th[t].before[a])


(***************************************************************************)
(* Properties of load() when an insert fails after its delete              *)
(***************************************************************************)

\* the step of t in which insert_many fails, the delete before it having
\* succeeded
InsertFails(t) ==
    /\ ld[t].pc = "insert"
    /\ ld[t].key \in ld'[t].bad

\* the records coll holds for the symbol of t's batch in the UTC day of the
\* batch's first row
DayWindow(coll, t) ==
    LET first == ld[t].df.rows[1]
    IN  find(coll, first.symbol, start_of_day(first.ts),
             end_of_day(first.ts))

\* C33 as stated: when the insert fails after the delete succeeded, load()
\* goes on and the collection holds no record of the symbol in that day
C33_PartialFailureEmptiesDay ==
    [][\A t \in LoadThreads :
          InsertFails(t) =>
              /\ ld'[t].pc = "loop"
              /\ DayWindow(store', t) = <<>>]_vars

\* C33 amended: when the insert fails after the delete succeeded, load()
\* goes on and the collection holds, for the symbol in that day, nothing
\* but records of the new batch that the failed insert had written already;
\* what was stored before is not put back
C33_PartialFailure ==
    [][\A t \in LoadThreads :
          InsertFails(t) =>
              /\ ld'[t].pc = "loop"
              /\ SeqToBag(DayWindow(store', t))
                    \sqsubseteq SeqToBag(ld[t].df.rows)
              /\ \E n \in 0..Len(ld[t].df.rows) :
                    SeqToBag(DayWindow(store', t)) =
                        SeqToBag(DayWindow(
                            SeqToBag(SubSeq(ld[t].df.rows, 1, n)), t))]_vars

\* the second load of a symbol lost its insert after deleting the day the
\* first load had filled, and the day is empty
C33_Witness ==
    \E t \in LoadThreads :
        /\ ld[t].pc = "loop"
        /\ ld[t].key \in ld[t].bad
        /\ ld[t].dcalls = 1 /\ ld[t].icalls = 1
        /\ ld[t].snap # EmptyBag
        /\ DayWindow(ld[t].snap, t) # <<>>
        /\ DayWindow(store, t) = <<>>


(***************************************************************************)
(* Properties of the cached client's lifetime                              *)
(***************************************************************************)

\* C34: a create_client call that began when the cached client's age had
\* reached the lifetime never returns that client, however healthy it is:
\* when the call returns, that client has been closed, the client returned
\* was constructed after the call began, and where it is the cached one its
\* creation time lies a lifetime or more after the old one's
C34_TtlRecycling ==
    \A t \in Threads :
        th[t].stale # NoClient =>
            /\ th[t].pc \in {"L98", "L99", "L111", "L112"} =>
                  cached_client # th[t].stale
            /\ th[t].pc = "returned" =>
                  /\ th[t].ret # th[t].stale
                  /\ th[t].stale \in closed
                  /\ th[t].ret > th[t].made0
                  /\ (cached_client = th[t].ret
                        /\ client_creation_time # NoTime) =>
                        client_creation_time - th[t].stale_time
                            >= client_lifetime

\* the call found the cached client expired, closed it and returned one it
\* constructed itself, which is cached with its creation time
C34_Witness ==
    \E t \in Threads :
        /\ th[t].stale # NoClient
        /\ th[t].pc = "returned"
        /\ th[t].attempts = 1
        /\ th[t].ret = made
        /\ th[t].stale \in closed
        /\ cached_client = th[t].ret
        /\ client_creation_time = now


(***************************************************************************)
(* Properties of a repeated recovery                                       *)
(***************************************************************************)

\* the call of t returned, it repeated the previous call with the same
\* single key, an empty batch both times and the same start_date, and no
\* store operation failed
RecoveredAgain(t) ==
    /\ ld[t].pc = "done"
    /\ ld[t].prev # <<>>
    /\ ld[t].batch = {}
    /\ ld[t].bad = {}

\* C35: a second load of an empty batch for the same symbol and start_date
\* leaves the (symbol, timestamp) records of the symbol as the first load
\* left them, whatever the store held before
C35_RecoveryIdempotent ==
    \A t \in LoadThreads :
        RecoveredAgain(t) =>
            SymRecords(store, normalize_symbol(ld[t].key))
                = SymRecords(ld[t].snap, normalize_symbol(ld[t].key))

\* the second call recovered the rows of a later day than start_date and
\* put them where the first call had put them
C35_Witness ==
    \E t \in LoadThreads :
        /\ RecoveredAgain(t)
        /\ ld[t].ok # {}
        /\ ld[t].q1 = "found"
        /\ ld[t].last_date > ld[t].target
        /\ Len(ld[t].src.rows) = TodPerDay
        /\ \E d \in DOMAIN store :
               /\ d.symbol = normalize_symbol(ld[t].key)
               /\ date_of(d.ts) = ld[t].target


\* the call of t has just recovered rows of its current symbol from the
\* collection, which nothing has written to since
Tier1Recovered(t) ==
    /\ ld[t].pc = "delete"
    /\ ld[t].q1 = "found"
    /\ ~ld[t].q2

\* the documents of the symbol dated day, as a bag
DayRecords(coll, symbol, day) ==
    [d \in {e \in DOMAIN coll : e.symbol = symbol /\ date_of(e.ts) = day}
        |-> coll[d]]

\* C36: the recovery from the collection takes the UTC date of the symbol's
\* document with the greatest timestamp, reads exactly the symbol's documents
\* of that date, as many times as each is stored, and returns one rewritten
\* row for each of them and no other row
C36_Tier1OneDay ==
    \A t \in LoadThreads :
        Tier1Recovered(t) =>
            LET last == SetMax({d.ts : d \in {e \in DOMAIN store :
                                                 e.symbol = ld[t].key}})
            IN  /\ ld[t].last_date = date_of(last)
                /\ SeqToBag(ld[t].src.rows)
                      = DayRecords(store, ld[t].key, date_of(last))
                /\ Len(ld[t].df.rows) = Len(ld[t].src.rows)
                /\ \A i \in 1..Len(ld[t].src.rows) :
                      ld[t].df.rows[i]
                          = [symbol |-> ld[t].key,
                             ts |-> combine(ld[t].target,
                                            time_of(ld[t].src.rows[i].ts))]

\* the symbol has documents on two days and another symbol has documents on
\* the later day: the rows of the later day alone were recovered
C36_Witness ==
    \E t \in LoadThreads :
        /\ Tier1Recovered(t)
        /\ Len(ld[t].src.rows) = TodPerDay
        /\ ld[t].last_date # ld[t].target
        /\ \E d \in DOMAIN store :
               d.symbol = ld[t].key /\ date_of(d.ts) < ld[t].last_date
        /\ \E d \in DOMAIN store :
               d.symbol # ld[t].key /\ date_of(d.ts) = ld[t].last_date


\* the call of t is recovering its current symbol from the collection
Recovering(t) ==
    \/ ld[t].pc \in {"tier1", "tier1_find"}
    \/ ld[t].pc \in {"delete", "insert"} /\ ld[t].q1 = "found" /\ ~ld[t].q2

\* C39: while load() recovers a symbol for start_date from the collection,
\* the documents of every other symbol and the symbol's documents of every
\* other UTC day, the day recovered from included, stay as they are: only
\* the symbol's documents dated start_date are removed or added
C39_RecoveryFrame ==
    [][\A t \in LoadThreads :
          Recovering(t) =>
              \A d \in DOMAIN store \cup DOMAIN store' :
                  (d.symbol # ld[t].key \/ date_of(d.ts) # ld[t].target) =>
                      CopiesIn(d, store') = CopiesIn(d, store)]_vars

\* a recovery has replaced the symbol's documents of start_date by those of
\* a later day, next to another symbol's documents of start_date
C39_Witness ==
    \E t \in LoadThreads :
        /\ ld[t].pc = "done"
        /\ ld[t].q1 = "found"
        /\ ~ld[t].q2
        /\ ld[t].ok # {}
        /\ ld[t].last_date # ld[t].target
        /\ DayRecords(store, ld[t].key, ld[t].last_date) # EmptyBag
        /\ DayRecords(store, ld[t].key, ld[t].target) # EmptyBag
        /\ \E d \in DOMAIN store :
               d.symbol # ld[t].key /\ date_of(d.ts) = ld[t].target


(***************************************************************************)
(* Properties of a retried insert                                          *)
(***************************************************************************)

\* how many stored documents have the body
StoredCopies(coll, body) ==
    BagCardinality([d \in {e \in DOMAIN coll : e.body = body} |-> coll[d]])

\* the call has ended, and one of its attempts reported a connection error
\* after the server had applied the whole write
EndedAfterLostReply ==
    /\ wr.pc \in {"returned", "raised"}
    /\ wr.lost

C38_MutexLiveness ==
    /\ [](\A t \in Threads :
             th[t].pc \in {"idle", "returned", "raised"} => lock # t)
    /\ \A t \in Threads : (th[t].pc = "L105") ~> (lock = t)
    /\ \A t \in Threads :
          (th[t].pc \notin {"idle", "returned", "raised"})
              ~> (th[t].pc \in {"returned", "raised"})

\* a thread waits for the lock while its holder, whose attempt to establish
\* a connection has failed, is about to sleep or give up
C38_Witness ==
    \E t, u \in Threads :
        /\ t # u
        /\ th[t].pc = "L105"
        /\ lock = u
        /\ th[u].pc = "L159"


(***************************************************************************)
(* Properties of the clients the factory constructs                        *)
(***************************************************************************)

\* the clients constructed so far that close() was never called on
OpenClients == {c \in 1..made : c \notin closed}

\* C40: at every moment at most one client the factory has constructed is
\* not closed, and a client that is not closed is the cached one or the one
\* a call is about to cache: the clients whose first ping failed and the
\* clients that were replaced have been closed
C40_OneOpenClient ==
    /\ Cardinality(OpenClients) <= 1
    /\ \A c \in OpenClients :
          \/ c = cached_client
          \/ \E t \in Threads : th[t].pc = "L153" /\ th[t].client = c


====
